---- MODULE Spec2Model ----
(***************************************************************************)
(* Model of the exercise form analysis engine of fitmentor-form-checker:   *)
(* the hysteresis rep counter, the inline rep counters of the exercise     *)
(* analyzers, the rolling-average angle smoother, the form scoring and     *)
(* feedback of the analyzers, the hold timers, the confidence filter, the  *)
(* frame loop and response of the video processor, the validation of a     *)
(* request and the resources it holds, two sessions processed side by      *)
(* side, the angle of three points, and the resets of the base analyzer.   *)
(*                                                                         *)
(* Each run drives one object (variable `subject`): the objects share no   *)
(* state, so their behaviours are explored side by side, not as a product. *)
(* Angles are degrees; only their order relative to the thresholds of the  *)
(* code matters, so the inputs are the thresholds and values around them.  *)
(***************************************************************************)
EXTENDS Integers, Sequences, FiniteSets, TLC

(* ---------------------------- bounds ---------------------------------- *)
\* number of RepCounter.update calls explored since construction / reset
MaxUpdates == 6
\* number of analyze calls explored on one analyzer
MaxFrames == 4
\* number of AngleSmoother calls (smooth, reset, reset_angle) explored
MaxCalls == 5

(* ------------------------ program constants --------------------------- *)
\* RepCounter.__init__ defaults
DefaultDownThreshold == 100
DefaultUpThreshold == 160
\* AngleSmoother.__init__ default
DefaultWindowSize == 5

\* (down_threshold, up_threshold) pairs a RepCounter is constructed with
ThresholdPairs == {<<DefaultDownThreshold, DefaultUpThreshold>>, <<130, DefaultUpThreshold>>}

\* calculate_angle of coinciding points is 0/0: NaN, which compares false with
\* everything. It is kept apart from the degrees, which are never negative.
NaN == -1
Lt(a, b) == a # NaN /\ b # NaN /\ a < b
Gt(a, b) == a # NaN /\ b # NaN /\ a > b
Le(a, b) == a # NaN /\ b # NaN /\ a <= b
Ge(a, b) == a # NaN /\ b # NaN /\ a >= b

\* angles fed to RepCounter.update: below, on, between and above the thresholds
UpdateAngles == {90, 100, 130, 160, 170, NaN}

VARIABLES
  subject,   \* the object this run drives
  rc,        \* the RepCounter object (its five attributes)
  rc_log,    \* update calls since construction or the last reset: angle and returned dict
  sq,        \* the SquatAnalyzer object
  sr,        \* the ShoulderRaiseAnalyzer object
  bc,        \* the BicepCurlAnalyzer object
  calls,     \* analyze calls made on the analyzer so far
  outcome,   \* how the last analyze call ended: "returned" or the exception it raised
  sm,        \* the AngleSmoother object
  sm_log,    \* the calls made on the smoother, with what smooth returned
  pu,        \* the PushupAnalyzer object
  dp,        \* the DipsAnalyzer object
  pl,        \* the PullupAnalyzer object
  lg,        \* the LungeAnalyzer object
  pk,        \* the PlankAnalyzer object
  dl,        \* the DeadliftAnalyzer object
  base,      \* a BaseExerciseAnalyzer object (form_score and feedback)
  base_log,  \* penalties passed to add_feedback since construction or reset_frame
  an_log,    \* the frames given to analyze in this session, with what each left behind
  result     \* the response of VideoProcessor._process_video_file, once returned

formVars == <<pu, dp, pl, lg, pk, dl, base, base_log, an_log, result>>

VARIABLES
  clock,     \* what time.time() returned last, in half seconds
  sp,        \* the SidePlankAnalyzer object
  vp,        \* the frame loop of VideoProcessor._process_video_file
  req,       \* one request to the API or to the video processor, with its answer
  cf,        \* one call of ConfidenceFilter.is_valid: filter, argument and return value
  sessions,  \* two sessions processed side by side, each with its own objects
  ang        \* one call of calculate_angle and of angle_3pts: points and return values

holdVars == <<clock, sp>>

extVars == <<holdVars, vp, req, cf, sessions, ang>>

vars == <<subject, rc, rc_log, sq, sr, bc, calls, outcome, sm, sm_log, formVars, extVars>>

(* ----------------------------- RepCounter ------------------------------ *)
RepCounter_init(down, up) ==
  [down_threshold |-> down, up_threshold |-> up,
   state |-> "READY", rep_count |-> 0, partial_rep |-> FALSE]

\* RepCounter.update as it would be with a slip, each used to see that a
\* property of the counter depends on the code it is about
\* ... counting when DOWN is entered
RepCounter_update_CountsOnDescent(c, angle) ==
  IF c.state = "READY" /\ Lt(angle, c.down_threshold)
    THEN [c EXCEPT !.state = "DOWN", !.partial_rep = TRUE, !.rep_count = @ + 1]
  ELSE IF c.state = "DOWN" /\ Gt(angle, c.up_threshold)
    THEN [c EXCEPT !.state = "READY", !.partial_rep = FALSE]
  ELSE c

\* ... starting the count again on every descent
RepCounter_update_ClearsOnDescent(c, angle) ==
  IF c.state = "READY" /\ Lt(angle, c.down_threshold)
    THEN [c EXCEPT !.state = "DOWN", !.partial_rep = TRUE, !.rep_count = 0]
  ELSE IF c.state = "DOWN" /\ Gt(angle, c.up_threshold)
    THEN [c EXCEPT !.state = "READY", !.rep_count = @ + 1, !.partial_rep = FALSE]
  ELSE c

\* ... comparing with <= and >=
RepCounter_update_Inclusive(c, angle) ==
  IF c.state = "READY" /\ Le(angle, c.down_threshold)
    THEN [c EXCEPT !.state = "DOWN", !.partial_rep = TRUE]
  ELSE IF c.state = "DOWN" /\ Ge(angle, c.up_threshold)
    THEN [c EXCEPT !.state = "READY", !.rep_count = @ + 1, !.partial_rep = FALSE]
  ELSE c

\* ... completing the rep above down_threshold instead of up_threshold
RepCounter_update_NoHysteresis(c, angle) ==
  IF c.state = "READY" /\ Lt(angle, c.down_threshold)
    THEN [c EXCEPT !.state = "DOWN", !.partial_rep = TRUE]
  ELSE IF c.state = "DOWN" /\ Gt(angle, c.down_threshold)
    THEN [c EXCEPT !.state = "READY", !.rep_count = @ + 1, !.partial_rep = FALSE]
  ELSE c

\* ... leaving partial_rep set when the rep completes
RepCounter_update_KeepsPartial(c, angle) ==
  IF c.state = "READY" /\ Lt(angle, c.down_threshold)
    THEN [c EXCEPT !.state = "DOWN", !.partial_rep = TRUE]
  ELSE IF c.state = "DOWN" /\ Gt(angle, c.up_threshold)
    THEN [c EXCEPT !.state = "READY", !.rep_count = @ + 1]
  ELSE c

\* the state change of RepCounter.update
RepCounter_update(c, angle) ==
  IF c.state = "READY" /\ Lt(angle, c.down_threshold)
    THEN [c EXCEPT !.state = "DOWN", !.partial_rep = TRUE]
  ELSE IF c.state = "DOWN" /\ Gt(angle, c.up_threshold)
    THEN IF c.partial_rep
           THEN [c EXCEPT !.state = "READY", !.rep_count = @ + 1, !.partial_rep = FALSE]
           ELSE [c EXCEPT !.state = "READY"]
  ELSE c

\* the dict RepCounter.update returns
RepCounter_result(c) ==
  [rep_count |-> c.rep_count, state |-> c.state, partial_rep |-> c.partial_rep]

RepCounter_reset(c) ==
  [c EXCEPT !.state = "READY", !.rep_count = 0, !.partial_rep = FALSE]

(* ------------------------- helpers on sequences ------------------------ *)
Max(a, b) == IF a >= b THEN a ELSE b

RECURSIVE SumSeq(_)
SumSeq(s) == IF s = <<>> THEN 0 ELSE s[1] + SumSeq(Tail(s))

Take(s, n) == SubSeq(s, 1, IF Len(s) < n THEN Len(s) ELSE n)

(* ---------------------------- SquatAnalyzer ---------------------------- *)
\* A frame as SquatAnalyzer.analyze reads it: whether a landmark it looks up is
\* absent (landmarks.landmark[id] raises IndexError), the two angles, and the
\* coordinate differences of its checks in hundredths of the image size.
SquatAnalyzer_init ==
  [form_score |-> 100, frame_scores |-> <<>>, feedback_counts |-> <<>>,
   feedback |-> <<>>, rep_count |-> 0, is_down |-> FALSE,
   depth_warning |-> 0, knee_warning |-> 0]

\* the checks work on (self, frame_score, frame_feedback)
Emit(c, msg, penalty) ==
  [c EXCEPT !.frame_feedback = Append(@, msg), !.frame_score = @ - penalty]

SquatAnalyzer_check_depth(c, knee_angle, hip_below_knee) ==
  IF Gt(knee_angle, 160)
    THEN [Emit(c, "Too shallow - barely squatting", 40) EXCEPT !.self.depth_warning = @ + 1]
  ELSE IF Gt(knee_angle, 140) THEN Emit(c, "Quarter squat - go deeper", 25)
  ELSE IF Gt(knee_angle, 100)
    THEN Emit(c, "Parallel depth - good!", IF hip_below_knee THEN 0 ELSE 5)
  ELSE IF Ge(knee_angle, 70) THEN Emit(c, "Below parallel - excellent!", 0)
  ELSE Emit(c, "Too deep - risk of injury", 15)

SquatAnalyzer_check_knee_tracking(c, knee_dx) ==
  LET c1 == IF knee_dx > 15
              THEN [Emit(c, "Knees too far forward", 20) EXCEPT !.self.knee_warning = @ + 1]
              ELSE c
  IN IF knee_dx > 20 THEN Emit(c1, "Knees caving in - push out!", 30) ELSE c1

SquatAnalyzer_check_back_angle(c, hip_angle) ==
  IF Lt(hip_angle, 40) THEN Emit(c, "Back too bent - injury risk!", 35)
  ELSE IF Lt(hip_angle, 55) THEN Emit(c, "Back angle needs work", 15)
  ELSE IF Gt(hip_angle, 85) THEN Emit(c, "Too upright - might fall back", 10)
  ELSE Emit(c, "Good back position", 0)

SquatAnalyzer_check_balance(c, knee_dy) ==
  IF knee_dy > 5 THEN Emit(c, "Uneven - check balance", 10) ELSE c

\* self.feedback_counts[msg] = self.feedback_counts.get(msg, 0) + 1 on a dict,
\* which keeps its keys in insertion order: a sequence of (msg, count)
CountMessage(counts, msg) ==
  IF \E i \in DOMAIN counts : counts[i].msg = msg
    THEN [i \in DOMAIN counts |->
            IF counts[i].msg = msg THEN [counts[i] EXCEPT !.count = @ + 1] ELSE counts[i]]
    ELSE Append(counts, [msg |-> msg, count |-> 1])

RECURSIVE CountMessages(_, _)
CountMessages(counts, msgs) ==
  IF msgs = <<>> THEN counts
  ELSE CountMessages(CountMessage(counts, Head(msgs)), Tail(msgs))

RECURSIVE SortedByCount_TiesLastSeenFirst(_)
SortedByCount_TiesLastSeenFirst(items) ==
  IF items = <<>> THEN <<>>
  ELSE LET n == Len(items)
           x == items[n]
           rest == SortedByCount_TiesLastSeenFirst(SubSeq(items, 1, n - 1))
           k == Cardinality({i \in DOMAIN rest : rest[i].count > x.count})
       IN SubSeq(rest, 1, k) \o <<x>> \o SubSeq(rest, k + 1, Len(rest))

\* sorted(items, key=count, reverse=True): stable, so equal counts keep dict order
RECURSIVE SortedByCount(_)
SortedByCount(items) ==
  IF items = <<>> THEN <<>>
  ELSE LET n == Len(items)
           x == items[n]
           rest == SortedByCount(SubSeq(items, 1, n - 1))
           k == Cardinality({i \in DOMAIN rest : rest[i].count >= x.count})
       IN SubSeq(rest, 1, k) \o <<x>> \o SubSeq(rest, k + 1, Len(rest))

TopFeedback(counts) ==
  LET top == Take(SortedByCount(counts), 4) IN [i \in DOMAIN top |-> top[i].msg]

\* The inline counter with the down threshold included: knee_angle <= 110
SquatAnalyzer_count_reps_InclusiveDown(self, knee_angle) ==
  IF Le(knee_angle, 110) /\ ~self.is_down THEN [self EXCEPT !.is_down = TRUE]
  ELSE IF Gt(knee_angle, 160) /\ self.is_down
    THEN [self EXCEPT !.is_down = FALSE, !.rep_count = @ + 1]
  ELSE self

SquatAnalyzer_count_reps(self, knee_angle) ==
  IF Lt(knee_angle, 110) /\ ~self.is_down THEN [self EXCEPT !.is_down = TRUE]
  ELSE IF Gt(knee_angle, 160) /\ self.is_down
    THEN [self EXCEPT !.is_down = FALSE, !.rep_count = @ + 1]
  ELSE self

SquatAnalyzer_analyze_LastFrameScore(self, frame) ==
  IF frame.missing THEN self
  ELSE LET c0 == [self |-> self, frame_score |-> 100, frame_feedback |-> <<>>]
           c1 == SquatAnalyzer_check_depth(c0, frame.knee_angle, frame.hip_below_knee)
           c2 == SquatAnalyzer_check_knee_tracking(c1, frame.knee_dx)
           c3 == SquatAnalyzer_check_back_angle(c2, frame.hip_angle)
           c4 == SquatAnalyzer_check_balance(c3, frame.knee_dy)
           scores == Append(c4.self.frame_scores, Max(0, c4.frame_score))
           counts == CountMessages(c4.self.feedback_counts, c4.frame_feedback)
           s1 == [c4.self EXCEPT !.frame_scores = scores,
                                 !.feedback_counts = counts,
                                 !.form_score = Max(0, c4.frame_score),
                                 !.feedback = TopFeedback(counts)]
       IN SquatAnalyzer_count_reps(s1, frame.knee_angle)

\* analyze: a missing landmark raises before anything is stored and the except
\* clause only appends to the local frame_feedback. The drawing after
\* _count_reps changes no attribute (int(NaN) raising there is caught as well).
SquatAnalyzer_analyze(self, frame) ==
  IF frame.missing THEN self
  ELSE LET c0 == [self |-> self, frame_score |-> 100, frame_feedback |-> <<>>]
           c1 == SquatAnalyzer_check_depth(c0, frame.knee_angle, frame.hip_below_knee)
           c2 == SquatAnalyzer_check_knee_tracking(c1, frame.knee_dx)
           c3 == SquatAnalyzer_check_back_angle(c2, frame.hip_angle)
           c4 == SquatAnalyzer_check_balance(c3, frame.knee_dy)
           scores == Append(c4.self.frame_scores, Max(0, c4.frame_score))
           counts == CountMessages(c4.self.feedback_counts, c4.frame_feedback)
           s1 == [c4.self EXCEPT !.frame_scores = scores,
                                 !.feedback_counts = counts,
                                 !.form_score = SumSeq(scores) \div Len(scores),
                                 !.feedback = TopFeedback(counts)]
       IN SquatAnalyzer_count_reps(s1, frame.knee_angle)

SquatBaseFrame ==
  [missing |-> FALSE, knee_angle |-> 105, hip_angle |-> 70,
   hip_below_knee |-> TRUE, knee_dx |-> 10, knee_dy |-> 2]

\* the frames fed to the squat analyzer: every knee angle around the depth and
\* rep thresholds, and from the base frame one change per check
SquatFrames ==
  {[SquatBaseFrame EXCEPT !.knee_angle = a] : a \in {60, 90, 105, 110, 150, 160, 170, NaN}}
  \cup {[SquatBaseFrame EXCEPT !.hip_angle = a] : a \in {30, 50, 90}}
  \cup {[SquatBaseFrame EXCEPT !.knee_dx = d] : d \in {18, 25}}
  \cup {[SquatBaseFrame EXCEPT !.knee_dy = 8],
        [SquatBaseFrame EXCEPT !.hip_below_knee = FALSE],
        [SquatBaseFrame EXCEPT !.missing = TRUE]}

(* ------------------------ ShoulderRaiseAnalyzer ------------------------ *)
ShoulderRaiseAnalyzer_init ==
  [form_score |-> 100, feedback |-> <<>>, rep_count |-> 0, is_raised |-> FALSE]

ShoulderRaiseAnalyzer_count_reps(self, arm_angle) ==
  IF Le(70, arm_angle) /\ Le(arm_angle, 110) /\ ~self.is_raised
    THEN [self EXCEPT !.is_raised = TRUE, !.rep_count = @ + 1]
  ELSE IF Lt(arm_angle, 30) /\ self.is_raised THEN [self EXCEPT !.is_raised = FALSE]
  ELSE self

ShoulderRaiseAnalyzer_analyze(self, frame) ==
  LET s0 == [self EXCEPT !.form_score = 100, !.feedback = <<>>]
      a == frame.arm_angle
  IN IF frame.missing THEN [s0 EXCEPT !.feedback = <<"Error: list index out of range">>]
     ELSE LET s1 == IF Le(70, a) /\ Le(a, 110)
                      THEN [s0 EXCEPT !.feedback = Append(@, "Perfect height!")]
                    ELSE IF Lt(a, 70)
                      THEN [s0 EXCEPT !.feedback = Append(@, "Raise higher!"),
                                      !.form_score = @ - 20]
                    ELSE [s0 EXCEPT !.feedback = Append(@, "Don't go too high!"),
                                    !.form_score = @ - 10]
          IN ShoulderRaiseAnalyzer_count_reps(s1, a)

ShoulderRaiseFrames ==
  {[missing |-> FALSE, arm_angle |-> a] : a \in {20, 30, 50, 70, 90, 110, 120, NaN}}
  \cup {[missing |-> TRUE, arm_angle |-> 90]}

(* -------------------------- BicepCurlAnalyzer -------------------------- *)
BicepCurlAnalyzer_init ==
  [form_score |-> 100, frame_scores |-> <<>>, feedback_counts |-> <<>>,
   feedback |-> <<>>, rep_count |-> 0, is_curled |-> FALSE]

BicepCurlAnalyzer_count_reps(self, elbow_angle) ==
  IF Lt(elbow_angle, 70) /\ ~self.is_curled
    THEN [self EXCEPT !.is_curled = TRUE, !.rep_count = @ + 1]
  ELSE IF Gt(elbow_angle, 140) /\ self.is_curled THEN [self EXCEPT !.is_curled = FALSE]
  ELSE self

\* analyze never assigns frame_feedback or frame_score: each branch of the angle
\* test (or the landmark lookup before it) raises inside the try, and the except
\* clause itself does frame_feedback.append, whose NameError leaves analyze.
\* Only the two assignments before the try take effect; _count_reps is not reached.
BicepCurlAnalyzer_analyze(self, frame) ==
  [self |-> [self EXCEPT !.form_score = 100, !.feedback = <<>>], raised |-> "NameError"]

BicepCurlFrames ==
  {[missing |-> FALSE, elbow_angle |-> a] : a \in {50, 70, 100, 140, 150, NaN}}
  \cup {[missing |-> TRUE, elbow_angle |-> 50]}

(* ---------------------------- AngleSmoother ---------------------------- *)
\* angle_history is a dict from channel name to deque: a function whose domain
\* is the set of channels created so far
NoChannels == [n \in {} |-> <<>>]

AngleSmoother_init(window_size) ==
  [window_size |-> window_size, angle_history |-> NoChannels]

\* deque.append as it would be without maxlen: nothing is ever dropped
deque_append_Unbounded(d, maxlen, x) == Append(d, x)

\* deque(maxlen=N).append(x): a full deque drops its oldest item, and a deque
\* of maxlen 0 stays empty
deque_append(d, maxlen, x) ==
  IF maxlen = 0 THEN d
  ELSE IF Len(d) = maxlen THEN Append(Tail(d), x)
  ELSE Append(d, x)

\* np.mean of the window as the fraction sum/len; the mean of an empty window is
\* 0/0, which numpy returns as NaN
np_mean(d) == [num |-> SumSeq(d), den |-> Len(d)]

\* smooth as it would be if it averaged before appending the new value
AngleSmoother_smooth_MeanBeforePush(self, angle_name, angle_value) ==
  LET h0 == self.angle_history
      h1 == IF angle_name \in DOMAIN h0 THEN h0
            ELSE [n \in DOMAIN h0 \cup {angle_name} |->
                    IF n = angle_name THEN <<>> ELSE h0[n]]
      h2 == [h1 EXCEPT ![angle_name] = deque_append(@, self.window_size, angle_value)]
  IN [self |-> [self EXCEPT !.angle_history = h2], ret |-> np_mean(h1[angle_name])]

AngleSmoother_smooth(self, angle_name, angle_value) ==
  LET h0 == self.angle_history
      h1 == IF angle_name \in DOMAIN h0 THEN h0
            ELSE [n \in DOMAIN h0 \cup {angle_name} |->
                    IF n = angle_name THEN <<>> ELSE h0[n]]
      h2 == [h1 EXCEPT ![angle_name] = deque_append(@, self.window_size, angle_value)]
  IN [self |-> [self EXCEPT !.angle_history = h2], ret |-> np_mean(h2[angle_name])]

AngleSmoother_reset(self) == [self EXCEPT !.angle_history = NoChannels]

\* reset_angle as it would be if it dropped every history, as reset does
AngleSmoother_reset_angle_DropsAll(self, angle_name) ==
  [self EXCEPT !.angle_history = NoChannels]

AngleSmoother_reset_angle(self, angle_name) ==
  IF angle_name \in DOMAIN self.angle_history
    THEN [self EXCEPT !.angle_history =
            [n \in DOMAIN self.angle_history \ {angle_name} |-> self.angle_history[n]]]
    ELSE self

\* the smoothers constructed: the window of the tests (3), smaller ones, and 0
WindowSizes == {0, 1, 2, 3}
ChannelNames == {"knee", "hip"}
SmoothValues == {80, 100}

(* --------------------------- PushupAnalyzer ---------------------------- *)
\* self.feedback.append(msg); self.form_score -= penalty: the per-frame
\* analyzers subtract from the attribute itself and never clamp it
Penalize(self, msg, penalty) ==
  [self EXCEPT !.feedback = Append(@, msg), !.form_score = @ - penalty]

\* the f"Error: {str(e)}" messages of the except clauses
MissingLandmark == "Error: list index out of range"
NaNToInt == "Error: cannot convert float NaN to integer"

PushupAnalyzer_init ==
  [form_score |-> 100, feedback |-> <<>>, rep_count |-> 0, is_down |-> FALSE,
   in_pushup_position |-> FALSE, alignment_warnings |-> 0]

PushupAnalyzer_check_position_KeepsPhase(self, vertical_diff, avg_y) ==
  [self EXCEPT !.in_pushup_position = vertical_diff < 15 /\ avg_y > 35]

\* image coordinates are in hundredths of the frame (0.15 is 15)
PushupAnalyzer_check_position(self, vertical_diff, avg_y) ==
  IF vertical_diff < 15 /\ avg_y > 35
    THEN [self EXCEPT !.in_pushup_position = TRUE]
    ELSE [self EXCEPT !.in_pushup_position = FALSE, !.is_down = FALSE]

PushupAnalyzer_check_elbow_angle(self, elbow_angle, elbow_shoulder_diff) ==
  LET s1 == IF Gt(elbow_angle, 160) THEN Penalize(self, "Not low enough - go deeper", 30)
            ELSE IF Gt(elbow_angle, 140) THEN Penalize(self, "Shallow push-up", 20)
            ELSE IF Le(75, elbow_angle) /\ Le(elbow_angle, 95)
              THEN Penalize(self, "Perfect depth (90)", 0)
            ELSE IF Lt(elbow_angle, 70)
              THEN Penalize(self, "Too low - chest hitting ground", 10)
            ELSE Penalize(self, "Good depth", 0)
  IN IF elbow_shoulder_diff > 25
       THEN Penalize(s1, "Elbows flaring out too much", 15)
       ELSE s1

PushupAnalyzer_check_body_alignment(self, body_angle) ==
  IF Lt(body_angle, 155)
    THEN [Penalize(self, "HIPS SAGGING - engage core!", 35) EXCEPT !.alignment_warnings = @ + 1]
  ELSE IF Lt(body_angle, 165) THEN Penalize(self, "Slight hip sag", 15)
  ELSE IF Gt(body_angle, 195)
    THEN [Penalize(self, "HIPS TOO HIGH - lower them", 30) EXCEPT !.alignment_warnings = @ + 1]
  ELSE IF Gt(body_angle, 185) THEN Penalize(self, "Hips slightly high", 10)
  ELSE Penalize(self, "Perfect plank position", 0)

PushupAnalyzer_check_head_position(self, head_drop) ==
  IF head_drop > 15 THEN Penalize(self, "Head too low - look ahead", 10)
  ELSE IF head_drop < -5 THEN Penalize(self, "Chin up - neutral neck", 5)
  ELSE self

PushupAnalyzer_check_hand_placement(self, hand_width) ==
  IF hand_width < 5 THEN Penalize(self, "Hands too narrow", 10)
  ELSE IF hand_width > 25 THEN Penalize(self, "Hands too wide", 10)
  ELSE self

PushupAnalyzer_count_reps(self, elbow_angle) ==
  IF Lt(elbow_angle, 100) /\ ~self.is_down THEN [self EXCEPT !.is_down = TRUE]
  ELSE IF Gt(elbow_angle, 155) /\ self.is_down
    THEN [self EXCEPT !.is_down = FALSE, !.rep_count = @ + 1]
  ELSE self

\* _draw_angle formats int(angle): a NaN angle raises there, after the checks
\* and the rep counting, and the except clause appends the error message
DrawAngle(self, angle) ==
  IF angle = NaN THEN [self EXCEPT !.feedback = Append(@, NaNToInt)] ELSE self

PushupAnalyzer_analyze(self, frame) ==
  LET s0 == [self EXCEPT !.form_score = 100, !.feedback = <<>>]
  IN IF frame.missing THEN [s0 EXCEPT !.feedback = <<MissingLandmark>>]
     ELSE LET s1 == PushupAnalyzer_check_position(s0, frame.vertical_diff, frame.avg_y)
          IN IF s1.in_pushup_position
               THEN LET s2 == PushupAnalyzer_check_elbow_angle(s1, frame.elbow_angle,
                                                               frame.elbow_shoulder_diff)
                        s3 == PushupAnalyzer_check_body_alignment(s2, frame.body_angle)
                        s4 == PushupAnalyzer_check_head_position(s3, frame.head_drop)
                        s5 == PushupAnalyzer_check_hand_placement(s4, frame.hand_width)
                        s6 == PushupAnalyzer_count_reps(s5, frame.elbow_angle)
                    IN DrawAngle(s6, frame.elbow_angle)
               ELSE [s1 EXCEPT !.feedback = Append(@, "Get in push-up position")]

\* a frame in position with good form at the bottom of the push-up
PushupBaseFrame ==
  [missing |-> FALSE, vertical_diff |-> 5, avg_y |-> 60, elbow_angle |-> 90,
   elbow_shoulder_diff |-> 10, body_angle |-> 175, head_drop |-> 5, hand_width |-> 15]

\* the top of the push-up, the frame on which every check applies its largest
\* penalty, a frame with a message from each of the five checks, frames out
\* of position (at the bottom and at the top), a NaN elbow, a missing landmark
PushupFrames ==
  {PushupBaseFrame,
   [PushupBaseFrame EXCEPT !.elbow_angle = 170],
   [PushupBaseFrame EXCEPT !.elbow_angle = 170, !.elbow_shoulder_diff = 30,
                           !.body_angle = 150, !.head_drop = 20, !.hand_width = 30],
   [PushupBaseFrame EXCEPT !.elbow_shoulder_diff = 30, !.head_drop = -10, !.hand_width = 2],
   [PushupBaseFrame EXCEPT !.vertical_diff = 30],
   [PushupBaseFrame EXCEPT !.avg_y = 20, !.elbow_angle = 170],
   [PushupBaseFrame EXCEPT !.elbow_angle = NaN],
   [PushupBaseFrame EXCEPT !.missing = TRUE]}

(* ---------------------------- DipsAnalyzer ----------------------------- *)
DipsAnalyzer_init ==
  [form_score |-> 100, feedback |-> <<>>, rep_count |-> 0, is_down |-> FALSE,
   in_dip_position |-> FALSE]

DipsAnalyzer_check_position(self, wrist_shoulder_diff, shoulder_y) ==
  IF wrist_shoulder_diff < 10 /\ shoulder_y < 70
    THEN [self EXCEPT !.in_dip_position = TRUE]
    ELSE [self EXCEPT !.in_dip_position = FALSE, !.is_down = FALSE]

DipsAnalyzer_check_elbow_angle(self, elbow_angle) ==
  IF Gt(elbow_angle, 170) THEN Penalize(self, "Arms fully extended", 0)
  ELSE IF Gt(elbow_angle, 140) THEN Penalize(self, "Go lower for full range", 15)
  ELSE IF Le(70, elbow_angle) /\ Le(elbow_angle, 95)
    THEN Penalize(self, "Perfect dip depth (90)", 0)
  ELSE IF Lt(elbow_angle, 70) THEN Penalize(self, "Too low - risk to shoulders", 20)
  ELSE Penalize(self, "Good depth", 0)

DipsAnalyzer_check_torso_angle(self, torso_angle) ==
  IF Lt(torso_angle, 140) THEN Penalize(self, "Leaning too far forward", 10)
  ELSE IF Gt(torso_angle, 200) THEN Penalize(self, "Too upright - lean slightly forward", 10)
  ELSE Penalize(self, "Good torso angle", 0)

DipsAnalyzer_check_shoulder_position(self, shoulder_elbow_diff) ==
  IF shoulder_elbow_diff > 15 THEN Penalize(self, "Shoulders dropping too low - DANGER!", 40)
  ELSE IF shoulder_elbow_diff > 10 THEN Penalize(self, "Watch shoulder position", 15)
  ELSE self

DipsAnalyzer_check_leg_position(self, leg_angle) ==
  IF Lt(leg_angle, 120) THEN Penalize(self, "Legs bent too much - keep controlled", 5)
  ELSE self

DipsAnalyzer_count_reps(self, elbow_angle) ==
  IF Lt(elbow_angle, 100) /\ ~self.is_down THEN [self EXCEPT !.is_down = TRUE]
  ELSE IF Gt(elbow_angle, 160) /\ self.is_down
    THEN [self EXCEPT !.is_down = FALSE, !.rep_count = @ + 1]
  ELSE self

DipsAnalyzer_analyze(self, frame) ==
  LET s0 == [self EXCEPT !.form_score = 100, !.feedback = <<>>]
  IN IF frame.missing THEN [s0 EXCEPT !.feedback = <<MissingLandmark>>]
     ELSE LET s1 == DipsAnalyzer_check_position(s0, frame.wrist_shoulder_diff, frame.shoulder_y)
          IN IF s1.in_dip_position
               THEN LET s2 == DipsAnalyzer_check_elbow_angle(s1, frame.elbow_angle)
                        s3 == DipsAnalyzer_check_torso_angle(s2, frame.torso_angle)
                        s4 == DipsAnalyzer_check_shoulder_position(s3, frame.shoulder_elbow_diff)
                        s5 == DipsAnalyzer_check_leg_position(s4, frame.leg_angle)
                        s6 == DipsAnalyzer_count_reps(s5, frame.elbow_angle)
                    IN DrawAngle(s6, frame.elbow_angle)
               ELSE [s1 EXCEPT !.feedback = Append(@, "Get in dip starting position")]

\* a frame in position at the bottom of the dip
DipsBaseFrame ==
  [missing |-> FALSE, wrist_shoulder_diff |-> 0, shoulder_y |-> 40, elbow_angle |-> 90,
   torso_angle |-> 170, shoulder_elbow_diff |-> 0, leg_angle |-> 170]

DipsFrames ==
  {DipsBaseFrame,
   [DipsBaseFrame EXCEPT !.elbow_angle = 175],
   [DipsBaseFrame EXCEPT !.elbow_angle = 60, !.torso_angle = 130,
                         !.shoulder_elbow_diff = 20, !.leg_angle = 100],
   [DipsBaseFrame EXCEPT !.wrist_shoulder_diff = 20],
   [DipsBaseFrame EXCEPT !.shoulder_y = 80, !.elbow_angle = 175],
   [DipsBaseFrame EXCEPT !.elbow_angle = NaN, !.leg_angle = NaN],
   [DipsBaseFrame EXCEPT !.missing = TRUE]}

(* --------------------------- PullupAnalyzer ---------------------------- *)
PullupAnalyzer_init ==
  [form_score |-> 100, feedback |-> <<>>, rep_count |-> 0, is_up |-> FALSE,
   in_hang_position |-> FALSE]

PullupAnalyzer_check_position_KeepsPhase(self, wrist_y, shoulder_y) ==
  [self EXCEPT !.in_hang_position = wrist_y < shoulder_y]

PullupAnalyzer_check_position(self, wrist_y, shoulder_y) ==
  IF wrist_y < shoulder_y
    THEN [self EXCEPT !.in_hang_position = TRUE]
    ELSE [self EXCEPT !.in_hang_position = FALSE, !.is_up = FALSE]

\* the penalties sit under "not chin_above_bar", where wrist_y - nose_y <= 0
PullupAnalyzer_check_pull_height(self, nose_y, wrist_y) ==
  IF nose_y < wrist_y THEN Penalize(self, "Chin above bar!", 0)
  ELSE LET diff == wrist_y - nose_y
       IN IF diff > 10 THEN Penalize(self, "Pull higher - chin must clear bar", 30)
          ELSE IF diff > 5 THEN Penalize(self, "Almost there - pull a bit higher", 15)
          ELSE self

PullupAnalyzer_check_elbow_angle(self, elbow_angle) ==
  IF Gt(elbow_angle, 160) THEN Penalize(self, "Full hang - good starting position", 0)
  ELSE IF Le(60, elbow_angle) /\ Le(elbow_angle, 90)
    THEN Penalize(self, "Strong pull position", 0)
  ELSE IF Lt(elbow_angle, 60) THEN Penalize(self, "Full pull!", 0)
  ELSE self

PullupAnalyzer_check_body_control(self, body_angle) ==
  IF Lt(body_angle, 150) THEN Penalize(self, "Too much swing - control your body", 15)
  ELSE IF Gt(body_angle, 200) THEN Penalize(self, "Excessive kipping - use strict form", 15)
  ELSE Penalize(self, "Good body control", 0)

PullupAnalyzer_check_leg_position(self, hip_y, knee_y) ==
  IF ~(knee_y > hip_y) THEN Penalize(self, "Legs swinging too much", 10) ELSE self

PullupAnalyzer_count_reps(self, elbow_angle, nose_y, wrist_y) ==
  IF nose_y < wrist_y /\ Lt(elbow_angle, 100) /\ ~self.is_up
    THEN [self EXCEPT !.is_up = TRUE]
  ELSE IF Gt(elbow_angle, 155) /\ self.is_up
    THEN [self EXCEPT !.is_up = FALSE, !.rep_count = @ + 1]
  ELSE self

PullupAnalyzer_analyze(self, frame) ==
  LET s0 == [self EXCEPT !.form_score = 100, !.feedback = <<>>]
  IN IF frame.missing THEN [s0 EXCEPT !.feedback = <<MissingLandmark>>]
     ELSE LET s1 == PullupAnalyzer_check_position(s0, frame.wrist_y, frame.shoulder_y)
          IN IF s1.in_hang_position
               THEN LET s2 == PullupAnalyzer_check_pull_height(s1, frame.nose_y, frame.wrist_y)
                        s3 == PullupAnalyzer_check_elbow_angle(s2, frame.elbow_angle)
                        s4 == PullupAnalyzer_check_body_control(s3, frame.body_angle)
                        s5 == PullupAnalyzer_check_leg_position(s4, frame.hip_y, frame.knee_y)
                        s6 == PullupAnalyzer_count_reps(s5, frame.elbow_angle,
                                                        frame.nose_y, frame.wrist_y)
                    IN DrawAngle(s6, frame.elbow_angle)
               ELSE [s1 EXCEPT !.feedback = Append(@, "Hang from bar to start")]

\* a frame hanging from the bar at the top of the pull, chin over the bar
PullupBaseFrame ==
  [missing |-> FALSE, wrist_y |-> 20, shoulder_y |-> 40, nose_y |-> 15, elbow_angle |-> 70,
   body_angle |-> 175, hip_y |-> 60, knee_y |-> 80]

PullupFrames ==
  {PullupBaseFrame,
   [PullupBaseFrame EXCEPT !.nose_y = 30, !.elbow_angle = 170],
   [PullupBaseFrame EXCEPT !.nose_y = 30, !.elbow_angle = 120, !.body_angle = 140,
                           !.knee_y = 50],
   [PullupBaseFrame EXCEPT !.wrist_y = 50],
   [PullupBaseFrame EXCEPT !.wrist_y = 50, !.nose_y = 30, !.elbow_angle = 170],
   [PullupBaseFrame EXCEPT !.elbow_angle = NaN],
   [PullupBaseFrame EXCEPT !.missing = TRUE]}

(* ---------------------------- LungeAnalyzer ---------------------------- *)
LungeAnalyzer_init ==
  [form_score |-> 100, feedback |-> <<>>, rep_count |-> 0, is_down |-> FALSE]

LungeAnalyzer_check_front_knee(self, front_knee_angle) ==
  IF Le(70, front_knee_angle) /\ Le(front_knee_angle, 110)
    THEN Penalize(self, "Good front knee angle!", 0)
  ELSE IF Lt(front_knee_angle, 70) THEN Penalize(self, "Front knee too bent", 20)
  ELSE Penalize(self, "Go deeper!", 15)

LungeAnalyzer_check_back_knee(self, back_knee_angle) ==
  IF Le(140, back_knee_angle) /\ Le(back_knee_angle, 180)
    THEN Penalize(self, "Good back leg extension!", 0)
  ELSE Penalize(self, "Extend back leg more", 10)

LungeAnalyzer_check_depth(self, front_knee_angle) ==
  IF Lt(front_knee_angle, 90) THEN Penalize(self, "Excellent depth!", 0)
  ELSE IF Lt(front_knee_angle, 120) THEN Penalize(self, "Good depth!", 0)
  ELSE Penalize(self, "Too shallow - Go lower!", 25)

LungeAnalyzer_count_reps(self, front_knee_angle) ==
  IF Lt(front_knee_angle, 100) /\ ~self.is_down THEN [self EXCEPT !.is_down = TRUE]
  ELSE IF Gt(front_knee_angle, 150) /\ self.is_down
    THEN [self EXCEPT !.is_down = FALSE, !.rep_count = @ + 1]
  ELSE self

\* the more bent knee is the front one
LungeAnalyzer_analyze(self, frame) ==
  LET s0 == [self EXCEPT !.form_score = 100, !.feedback = <<>>]
      left_is_front == Lt(frame.left_knee_angle, frame.right_knee_angle)
      front_knee_angle == IF left_is_front THEN frame.left_knee_angle
                          ELSE frame.right_knee_angle
      back_knee_angle == IF left_is_front THEN frame.right_knee_angle
                         ELSE frame.left_knee_angle
  IN IF frame.missing THEN [s0 EXCEPT !.feedback = <<MissingLandmark>>]
     ELSE LET s1 == LungeAnalyzer_check_front_knee(s0, front_knee_angle)
              s2 == LungeAnalyzer_check_back_knee(s1, back_knee_angle)
              s3 == LungeAnalyzer_check_depth(s2, front_knee_angle)
              s4 == LungeAnalyzer_count_reps(s3, front_knee_angle)
          IN DrawAngle(s4, front_knee_angle)

\* bottom of the lunge, standing, a shallow lunge on the other leg, a front
\* knee bent too far with the back leg bent, a NaN knee, a missing landmark
LungeFrames ==
  {[missing |-> FALSE, left_knee_angle |-> 90, right_knee_angle |-> 150],
   [missing |-> FALSE, left_knee_angle |-> 170, right_knee_angle |-> 170],
   [missing |-> FALSE, left_knee_angle |-> 160, right_knee_angle |-> 130],
   [missing |-> FALSE, left_knee_angle |-> 60, right_knee_angle |-> 120],
   [missing |-> FALSE, left_knee_angle |-> 90, right_knee_angle |-> NaN],
   [missing |-> TRUE, left_knee_angle |-> 90, right_knee_angle |-> 150]}

(* ---------------------------- PlankAnalyzer ---------------------------- *)
\* time.time() is read in half seconds, so that int() has a fraction to cut;
\* start_time is such a reading, or None (kept as -1, which no reading is)
NoStartTime == -1

PlankAnalyzer_init ==
  [form_score |-> 100, frame_scores |-> <<>>, feedback_counts |-> <<>>,
   feedback |-> <<>>, start_time |-> NoStartTime, hold_time |-> 0,
   in_plank_position |-> FALSE]

\* int(time.time() - self.start_time), both in half seconds
HoldTime(now, start_time) == (now - start_time) \div 2

PlankAnalyzer_check_position(self, vertical_diff, avg_y, elbow_y, shoulder_y) ==
  [self EXCEPT !.in_plank_position =
                  vertical_diff < 20 /\ avg_y > 30 /\ elbow_y > shoulder_y]

\* frame_score and frame_feedback are locals of analyze: the first statement
\* of each branch, frame_feedback.append(...), finds no such name in the
\* method or the module and raises NameError
PlankAnalyzer_check_body_alignment(c, body_angle) ==
  [c EXCEPT !.raised = "NameError"]

PlankAnalyzer_check_hip_position(c, hip_deviation) ==
  IF hip_deviation > 10 THEN [c EXCEPT !.raised = "NameError"] ELSE c

\* the except clause appends to the local frame_feedback and the method
\* returns: a frame whose check raised stores no score and no message, but
\* keeps the start_time and hold_time written before the check. now is what
\* time.time() returns during the call (both reads of lines 46 and 49 are
\* taken at the same instant).
PlankAnalyzer_analyze(self, frame, now) ==
  IF frame.missing THEN self
  ELSE LET s1 == PlankAnalyzer_check_position(self, frame.vertical_diff, frame.avg_y,
                                              frame.elbow_y, frame.shoulder_y)
           c0 == [self |-> s1, frame_score |-> 100, frame_feedback |-> <<>>,
                  raised |-> "none"]
           c1 == IF s1.in_plank_position
                   THEN LET start_time == IF s1.start_time = NoStartTime THEN now
                                          ELSE s1.start_time
                            t == [c0 EXCEPT !.self.start_time = start_time,
                                            !.self.hold_time = HoldTime(now, start_time)]
                            a == PlankAnalyzer_check_body_alignment(t, frame.body_angle)
                        IN IF a.raised # "none" THEN a
                           ELSE PlankAnalyzer_check_hip_position(a, frame.hip_deviation)
                   ELSE [Emit(c0, "Get in plank position!", 0)
                           EXCEPT !.self.start_time = NoStartTime, !.self.hold_time = 0]
       IN IF c1.raised # "none" THEN c1.self
          ELSE LET scores == Append(c1.self.frame_scores, Max(0, c1.frame_score))
                   counts == CountMessages(c1.self.feedback_counts, c1.frame_feedback)
               IN [c1.self EXCEPT !.frame_scores = scores, !.feedback_counts = counts,
                                  !.form_score = SumSeq(scores) \div Len(scores),
                                  !.feedback = TopFeedback(counts)]

\* a straight plank, sagging hips, sagging hips off the line, frames out
\* of position (upright; on the hands), a missing landmark
PlankBaseFrame ==
  [missing |-> FALSE, vertical_diff |-> 5, avg_y |-> 60, elbow_y |-> 70, shoulder_y |-> 55,
   body_angle |-> 175, hip_deviation |-> 2]

PlankFrames ==
  {PlankBaseFrame,
   [PlankBaseFrame EXCEPT !.body_angle = 140],
   [PlankBaseFrame EXCEPT !.body_angle = 150, !.hip_deviation = 15],
   [PlankBaseFrame EXCEPT !.vertical_diff = 40],
   [PlankBaseFrame EXCEPT !.elbow_y = 50],
   [PlankBaseFrame EXCEPT !.missing = TRUE]}

(* -------------------------- SidePlankAnalyzer -------------------------- *)
SidePlankAnalyzer_init ==
  [form_score |-> 100, feedback |-> <<>>, hold_time |-> 0,
   start_time |-> NoStartTime, in_side_plank |-> FALSE]

\* horizontal_alignment is abs(shoulder[1] - hip[1]), elbow_offset is
\* abs(elbow[0] - shoulder[0]), in hundredths
SidePlankAnalyzer_check_position(self, horizontal_alignment, elbow_offset) ==
  [self EXCEPT !.in_side_plank = horizontal_alignment < 20 /\ elbow_offset < 10]

SidePlankAnalyzer_check_body_alignment(self, body_angle) ==
  IF Le(165, body_angle) /\ Le(body_angle, 185)
    THEN Penalize(self, "Perfect straight line", 0)
  ELSE IF Le(155, body_angle) /\ Lt(body_angle, 165)
    THEN Penalize(self, "Slight hip sag", 15)
  ELSE IF Lt(body_angle, 155) THEN Penalize(self, "HIPS SAGGING - lift them up!", 35)
  ELSE IF Lt(185, body_angle) /\ Le(body_angle, 195)
    THEN Penalize(self, "Hips slightly high", 10)
  ELSE Penalize(self, "Hips too high", 20)

SidePlankAnalyzer_check_hip_position(self, hip_elevation) ==
  IF hip_elevation > 10 THEN Penalize(self, "Hips too high", 10)
  ELSE IF hip_elevation < -10 THEN Penalize(self, "Lift hips up!", 25)
  ELSE Penalize(self, "Good hip height", 0)

SidePlankAnalyzer_check_hip_stacking(self, hip_stacking) ==
  IF hip_stacking < 10 THEN Penalize(self, "Hips stacked well", 0)
  ELSE Penalize(self, "Stack hips better", 10)

\* the timer is started before the checks and hold_time is written after
\* them; the branch of a frame out of position clears start_time and leaves
\* hold_time alone. now is what time.time() returns during the call.
SidePlankAnalyzer_analyze(self, frame, now) ==
  LET s0 == [self EXCEPT !.form_score = 100, !.feedback = <<>>]
  IN IF frame.missing THEN [s0 EXCEPT !.feedback = <<MissingLandmark>>]
     ELSE LET s1 == SidePlankAnalyzer_check_position(s0, frame.horizontal_alignment,
                                                     frame.elbow_offset)
          IN IF s1.in_side_plank
               THEN LET start_time == IF s1.start_time = NoStartTime THEN now
                                      ELSE s1.start_time
                        s2 == [s1 EXCEPT !.start_time = start_time]
                        s3 == SidePlankAnalyzer_check_body_alignment(s2, frame.body_angle)
                        s4 == SidePlankAnalyzer_check_hip_position(s3, frame.hip_elevation)
                        s5 == SidePlankAnalyzer_check_hip_stacking(s4, frame.hip_stacking)
                        s6 == [s5 EXCEPT !.hold_time = HoldTime(now, start_time)]
                    IN DrawAngle(s6, frame.body_angle)
               ELSE [s1 EXCEPT !.feedback = Append(@, "Get in side plank position"),
                               !.start_time = NoStartTime]

\* a side plank with sagging hips, a frame out of position (shoulder far
\* above the hip), a NaN body angle, a missing landmark
SidePlankBaseFrame ==
  [missing |-> FALSE, horizontal_alignment |-> 5, elbow_offset |-> 3,
   body_angle |-> 175, hip_elevation |-> 0, hip_stacking |-> 4]

SidePlankFrames ==
  {[SidePlankBaseFrame EXCEPT !.body_angle = 150, !.hip_elevation = -15],
   [SidePlankBaseFrame EXCEPT !.horizontal_alignment = 40],
   [SidePlankBaseFrame EXCEPT !.body_angle = NaN],
   [SidePlankBaseFrame EXCEPT !.missing = TRUE]}

(* --------------------------- DeadliftAnalyzer -------------------------- *)
DeadliftAnalyzer_init ==
  [form_score |-> 100, frame_scores |-> <<>>, feedback_counts |-> <<>>,
   feedback |-> <<>>, rep_count |-> 0, is_down |-> FALSE,
   back_warnings |-> 0, critical_warning |-> FALSE]

\* every branch, the critical one (back_angle < 135) included, starts with
\* frame_feedback.append(...): frame_feedback is a local of analyze, so the
\* call raises NameError before form_score, back_warnings or critical_warning
\* are written. A NaN back angle reaches the else branch, which raises too.
DeadliftAnalyzer_check_back_safety(c, back_angle) ==
  [c EXCEPT !.raised = "NameError"]

DeadliftAnalyzer_count_reps(self, hip_angle) ==
  IF Lt(hip_angle, 120) /\ ~self.is_down THEN [self EXCEPT !.is_down = TRUE]
  ELSE IF Gt(hip_angle, 170) /\ self.is_down
    THEN IF ~self.critical_warning
           THEN [self EXCEPT !.is_down = FALSE, !.rep_count = @ + 1]
           ELSE [self EXCEPT !.is_down = FALSE]
  ELSE self

\* _check_hip_hinge, _check_bar_path and _check_lockout come after
\* _check_back_safety in the try block and use the same two names; the
\* exception of the first call leaves the block before them, before
\* _count_reps and before the frame score is stored
DeadliftAnalyzer_analyze(self, frame) ==
  LET s0 == [self EXCEPT !.critical_warning = FALSE]
  IN IF frame.missing THEN s0
     ELSE LET c0 == [self |-> s0, frame_score |-> 100, frame_feedback |-> <<>>,
                     raised |-> "none"]
              c1 == DeadliftAnalyzer_check_back_safety(c0, frame.back_angle)
          IN IF c1.raised # "none" THEN c1.self
             ELSE LET s1 == IF ~c1.self.critical_warning
                              THEN DeadliftAnalyzer_count_reps(c1.self, frame.hip_angle)
                              ELSE c1.self
                      scores == Append(s1.frame_scores, Max(0, c1.frame_score))
                      counts == CountMessages(s1.feedback_counts, c1.frame_feedback)
                  IN [s1 EXCEPT !.frame_scores = scores, !.feedback_counts = counts,
                                !.form_score = SumSeq(scores) \div Len(scores),
                                !.feedback = TopFeedback(counts)]

\* neutral back bent over and standing, back rounding (150), dangerous (140)
\* and critical (130) back angles, a NaN back angle, a missing landmark
DeadliftFrames ==
  {[missing |-> FALSE, back_angle |-> 175, hip_angle |-> 100],
   [missing |-> FALSE, back_angle |-> 175, hip_angle |-> 175],
   [missing |-> FALSE, back_angle |-> 150, hip_angle |-> 100],
   [missing |-> FALSE, back_angle |-> 140, hip_angle |-> 100],
   [missing |-> FALSE, back_angle |-> 130, hip_angle |-> 100],
   [missing |-> FALSE, back_angle |-> 130, hip_angle |-> 175],
   [missing |-> FALSE, back_angle |-> NaN, hip_angle |-> 175],
   [missing |-> TRUE, back_angle |-> 175, hip_angle |-> 100]}

(* ------------------------- BaseExerciseAnalyzer ------------------------ *)
\* An attribute that is None or an object: the empty sequence or <<object>>
None == <<>>

\* __init__(use_smoothing) followed by what a subclass puts into rep_counter.
\* Without smoothing the object has no angle_smoother attribute; the field
\* holds an untouched smoother then.
BaseExerciseAnalyzer_new(use_smoothing, rep_counter) ==
  [form_score |-> 100, feedback |-> <<>>, rep_count |-> 0,
   use_smoothing |-> use_smoothing,
   angle_smoother |-> AngleSmoother_init(DefaultWindowSize),
   rep_counter |-> rep_counter]

\* the base class as constructed by default
BaseExerciseAnalyzer_init == BaseExerciseAnalyzer_new(TRUE, None)

BaseExerciseAnalyzer_add_feedback_Unclamped(self, message, score_penalty) ==
  [self EXCEPT !.feedback = Append(@, message), !.form_score = @ - score_penalty]

BaseExerciseAnalyzer_add_feedback_DropsOverdraft(self, message, score_penalty) ==
  IF score_penalty > 0 /\ self.form_score - score_penalty >= 0
    THEN [self EXCEPT !.feedback = Append(@, message),
                      !.form_score = @ - score_penalty]
    ELSE [self EXCEPT !.feedback = Append(@, message)]

BaseExerciseAnalyzer_add_feedback(self, message, score_penalty) ==
  IF score_penalty > 0
    THEN [self EXCEPT !.feedback = Append(@, message),
                      !.form_score = Max(0, @ - score_penalty)]
    ELSE [self EXCEPT !.feedback = Append(@, message)]

BaseExerciseAnalyzer_reset_frame(self) == [self EXCEPT !.form_score = 100, !.feedback = <<>>]

\* smooth_angle: the analyzer after the call and the value returned, a fraction
BaseExerciseAnalyzer_smooth_angle(self, angle_name, angle_value) ==
  IF self.use_smoothing
    THEN LET r == AngleSmoother_smooth(self.angle_smoother, angle_name, angle_value)
         IN  [self |-> [self EXCEPT !.angle_smoother = r.self], ret |-> r.ret]
    ELSE [self |-> self, ret |-> [num |-> angle_value, den |-> 1]]

\* reset_exercise as it would be if it left the smoother alone
BaseExerciseAnalyzer_reset_exercise_KeepsSmoother(self) ==
  [self EXCEPT !.form_score = 100, !.feedback = <<>>, !.rep_count = 0,
               !.rep_counter = IF self.rep_counter # None
                                 THEN <<RepCounter_reset(self.rep_counter[1])>>
                                 ELSE @]

BaseExerciseAnalyzer_reset_exercise(self) ==
  [self EXCEPT !.form_score = 100, !.feedback = <<>>, !.rep_count = 0,
               !.angle_smoother = IF self.use_smoothing
                                    THEN AngleSmoother_reset(self.angle_smoother)
                                    ELSE @,
               !.rep_counter = IF self.rep_counter # None
                                 THEN <<RepCounter_reset(self.rep_counter[1])>>
                                 ELSE @]

\* self.rep_counter.update(angle) on the analyzer's own counter
BaseExerciseAnalyzer_rep_counter_update(self, angle) ==
  [self EXCEPT !.rep_counter = <<RepCounter_update(self.rep_counter[1], angle)>>]

\* a frame's penalties applied the way add_feedback does, one call each
RECURSIVE OneByOne(_, _)
OneByOne(self, penalties) ==
  IF penalties = <<>> THEN self
  ELSE OneByOne(BaseExerciseAnalyzer_add_feedback(self, "Form feedback", Head(penalties)),
                Tail(penalties))

\* and the way SquatAnalyzer.analyze does: each check subtracts from the
\* frame score it is handed, max(0, frame_score) is stored at the end
RECURSIVE EmitAll(_, _)
EmitAll(c, penalties) ==
  IF penalties = <<>> THEN c
  ELSE EmitAll(Emit(c, "Form feedback", Head(penalties)), Tail(penalties))

ClampOnce(penalties) ==
  Max(0, EmitAll([self |-> SquatAnalyzer_init, frame_score |-> 100, frame_feedback |-> <<>>],
                 penalties).frame_score)

\* score_penalty arguments: none, small, large, more than the whole score,
\* and a negative one
ScorePenalties == {0, 10, 40, 100, 150, -5}

(* --------------------------- ConfidenceFilter -------------------------- *)
\* min_confidence in hundredths, visibilities in quarters: on these values
\* the float sum and the comparison of is_valid are exact
ConfidenceFilter_init(min_confidence) == [min_confidence |-> min_confidence]

key_landmarks == <<11, 12, 23, 24, 25, 26>>

\* the for loop of is_valid over key_landmarks[i..]
RECURSIVE TotalVisibility(_, _)
TotalVisibility(landmarks, i) ==
  IF i > Len(key_landmarks) THEN 0
  ELSE LET idx == key_landmarks[i]
       IN (IF idx < landmarks.len THEN landmarks.visibility[idx] ELSE 0)
            + TotalVisibility(landmarks, i + 1)

\* total_visibility / len(key_landmarks) >= self.min_confidence, with the
\* total in quarters and the threshold in hundredths
ConfidenceFilter_is_valid_StrictlyAbove(self, landmarks) ==
  IF landmarks.kind # "pose" THEN FALSE
  ELSE TotalVisibility(landmarks, 1) * 100 > self.min_confidence * 4 * Len(key_landmarks)

ConfidenceFilter_is_valid(self, landmarks) ==
  IF landmarks.kind # "pose" THEN FALSE
  ELSE TotalVisibility(landmarks, 1) * 100 >= self.min_confidence * 4 * Len(key_landmarks)

\* the arguments of is_valid: None, an empty container (both false under
\* "not landmarks"), and pose landmarks whose list holds no landmark, the
\* first 12, the first 25 or all 33, each key landmark with visibility 0,
\* 0.75 or 1
LandmarkLists ==
  {[kind |-> "None"], [kind |-> "empty"]}
  \cup {[kind |-> "pose", len |-> n, visibility |-> v] :
          n \in {0, 12, 25, 33}, v \in [{11, 12, 23, 24, 25, 26} -> {0, 3, 4}]}

(* ------------------ the frame loop of the video processor -------------- *)
\* the settings __init__ reads from the environment, and the two counters of
\* _process_video_file; reading is true until the loop is left by a break
VideoProcessor_init(frame_skip_rate, max_frames_to_analyze) ==
  [frame_skip_rate |-> frame_skip_rate,
   max_frames_to_analyze |-> max_frames_to_analyze,
   min_frames_for_analysis |-> 30,
   frame_count |-> 0, frames_analyzed |-> 0, reading |-> TRUE]

\* what cap.read() and pose.process() deliver for one frame: whether a pose
\* was found (results.pose_landmarks), the mean visibility of its key
\* landmarks in hundredths, and the quantities the analyzer derives from it
VideoFrames(exercise) ==
  LET poses == IF exercise = "squat"
                 THEN {[SquatBaseFrame EXCEPT !.knee_angle = 90],
                       [SquatBaseFrame EXCEPT !.knee_angle = 170],
                       [SquatBaseFrame EXCEPT !.missing = TRUE]}
                 ELSE {PushupBaseFrame,
                       [PushupBaseFrame EXCEPT !.elbow_angle = 170],
                       [PushupBaseFrame EXCEPT !.missing = TRUE]}
  IN {[pose |-> TRUE, visibility |-> v, landmarks |-> f] : v \in {50, 90}, f \in poses}
     \cup {[pose |-> FALSE, visibility |-> 0, landmarks |-> SquatBaseFrame]}

\* analyzer.analyze(results.pose_landmarks, image)
Analyzed(exercise, analyzer, landmarks) ==
  IF exercise = "squat" THEN SquatAnalyzer_analyze(analyzer, landmarks)
  ELSE PushupAnalyzer_analyze(analyzer, landmarks)

\* one pass of the while loop on a frame that cap.read() delivered; the
\* result is the analyzer and the loop state after the pass
\* The pass as it would be without the frame skipping of lines 211-213
VideoProcessor_process_frame_AnalyzesSkipped(self, exercise, analyzer, frame) ==
  LET counted == [self EXCEPT !.frame_count = @ + 1]
  IN IF self.frames_analyzed >= self.max_frames_to_analyze
       THEN [vp |-> [counted EXCEPT !.reading = FALSE], analyzer |-> analyzer]
     ELSE LET a == IF frame.pose THEN Analyzed(exercise, analyzer, frame.landmarks)
                   ELSE analyzer
              n == IF frame.pose THEN self.frames_analyzed + 1
                   ELSE self.frames_analyzed
              enough == n >= self.min_frames_for_analysis /\ a.rep_count >= 5
          IN [vp |-> [counted EXCEPT !.frames_analyzed = n, !.reading = ~enough],
              analyzer |-> a]

\* The pass as it would be if five reps alone ended the loop
VideoProcessor_process_frame_StopsOnRepsAlone(self, exercise, analyzer, frame) ==
  LET counted == [self EXCEPT !.frame_count = @ + 1]
  IN IF counted.frame_count % self.frame_skip_rate # 0
       THEN [vp |-> counted, analyzer |-> analyzer]
     ELSE IF self.frames_analyzed >= self.max_frames_to_analyze
       THEN [vp |-> [counted EXCEPT !.reading = FALSE], analyzer |-> analyzer]
     ELSE LET a == IF frame.pose THEN Analyzed(exercise, analyzer, frame.landmarks)
                   ELSE analyzer
              n == IF frame.pose THEN self.frames_analyzed + 1
                   ELSE self.frames_analyzed
              enough == a.rep_count >= 5
          IN [vp |-> [counted EXCEPT !.frames_analyzed = n, !.reading = ~enough],
              analyzer |-> a]

VideoProcessor_process_frame(self, exercise, analyzer, frame) ==
  LET counted == [self EXCEPT !.frame_count = @ + 1]
  IN IF counted.frame_count % self.frame_skip_rate # 0
       THEN [vp |-> counted, analyzer |-> analyzer]
     ELSE IF self.frames_analyzed >= self.max_frames_to_analyze
       THEN [vp |-> [counted EXCEPT !.reading = FALSE], analyzer |-> analyzer]
     ELSE LET a == IF frame.pose THEN Analyzed(exercise, analyzer, frame.landmarks)
                   ELSE analyzer
              n == IF frame.pose THEN self.frames_analyzed + 1
                   ELSE self.frames_analyzed
              enough == n >= self.min_frames_for_analysis /\ a.rep_count >= 5
          IN [vp |-> [counted EXCEPT !.frames_analyzed = n, !.reading = ~enough],
              analyzer |-> a]

(* -------------------- requests: API and video processor ---------------- *)
\* the keys of VideoProcessor.ANALYZERS
ANALYZERS ==
  {"squat", "pushup", "plank", "lunge", "deadlift", "overhead_press", "row",
   "shoulder_raise", "bicep_curl", "tricep_extension"}

\* the list analyze_form validates against
valid_exercises ==
  {"squat", "pushup", "plank", "lunge", "deadlift", "overhead_press", "row",
   "shoulder_raise", "bicep_curl", "tricep_extension"}

valid_video_types ==
  {"video/mp4", "video/avi", "video/quicktime", "video/x-msvideo",
   "video/x-matroska", "video/webm"}

\* the identifiers a request may carry: a registered key, the same key
\* capitalised, an exercise nobody knows, an exercise with an analyzer
\* class that is not registered
ExerciseIds == {"squat", "Squat", "burpee", "dips"}

\* str.lower() on those identifiers
Lower(exercise) == IF exercise = "Squat" THEN "squat" ELSE exercise

\* content_type.startswith('video/') on the content types of Uploads
StartsWithVideo(content_type) == content_type \in {"video/mp4", "video/x-flv"}

\* the uploaded file: its size in MB, its content type, and whether its
\* name ends in one of the video extensions
Uploads ==
  [size_mb : {10, 60},
   content_type : {"video/mp4", "video/x-flv", "application/octet-stream", "text/plain"},
   video_ext : BOOLEAN]

\* the failure dict of lines 99-107 and 298-306
UnknownExercise ==
  [success |-> FALSE, message |-> "Unknown exercise type", form_score |-> 0,
   rep_count |-> 0, feedback |-> <<>>]

NoResponse ==
  [success |-> FALSE, message |-> "", form_score |-> 0, rep_count |-> 0,
   feedback |-> <<>>]

\* a request as it arrives: nothing has been created or answered yet
\* temp_file: a temp file was created; temp_exists: it is on disk now;
\* content: what is passed to analyze_video as video_content; capture: the
\* cv2.VideoCapture of the request ("none" before it is constructed)
Request(entry, exercise, upload) ==
  [entry |-> entry, given |-> exercise, exercise |-> exercise, upload |-> upload,
   at |-> entry, processor_invoked |-> FALSE, temp_file |-> FALSE,
   analyzer |-> FALSE, frames_read |-> FALSE, status |-> 0, detail |-> "",
   response |-> NoResponse,
   content |-> "bytes", temp_exists |-> FALSE, capture |-> "none"]

HTTPException(r, status_code, detail) ==
  [r EXCEPT !.at = "answered", !.status = status_code, !.detail = detail]

\* the checks run in the order file size, file type, exercise type; MAX_FILE_
\* SIZE_MB is at its default 50
analyze_form_SkipsExerciseCheck(r) ==
  IF r.upload.size_mb > 50
    THEN HTTPException(r, 413, "File size exceeds maximum allowed size")
  ELSE IF r.upload.content_type = "application/octet-stream" /\ ~r.upload.video_ext
    THEN HTTPException(r, 400, "Invalid file. Please upload a video file")
  ELSE IF /\ r.upload.content_type # "application/octet-stream"
          /\ r.upload.content_type \notin valid_video_types
          /\ ~StartsWithVideo(r.upload.content_type)
    THEN HTTPException(r, 400, "Invalid file type")
  ELSE [r EXCEPT !.at = "analyze_video", !.exercise = Lower(r.exercise),
                 !.processor_invoked = TRUE]

analyze_form(r) ==
  IF r.upload.size_mb > 50
    THEN HTTPException(r, 413, "File size exceeds maximum allowed size")
  ELSE IF r.upload.content_type = "application/octet-stream" /\ ~r.upload.video_ext
    THEN HTTPException(r, 400, "Invalid file. Please upload a video file")
  ELSE IF /\ r.upload.content_type # "application/octet-stream"
          /\ r.upload.content_type \notin valid_video_types
          /\ ~StartsWithVideo(r.upload.content_type)
    THEN HTTPException(r, 400, "Invalid file type")
  ELSE IF Lower(r.exercise) \notin valid_exercises
    THEN HTTPException(r, 400, "Invalid exercise type")
  ELSE [r EXCEPT !.at = "analyze_video", !.exercise = Lower(r.exercise),
                 !.processor_invoked = TRUE]

\* what the caller of the video processor gets: analyze_form returns the
\* dict as the body of a 200 answer
Returned_to_caller(r, response) ==
  IF r.entry = "POST /api/analyze"
    THEN [r EXCEPT !.at = "answered", !.status = 200, !.response = response]
    ELSE [r EXCEPT !.at = "returned", !.response = response]

\* an exception that leaves the video processor: analyze_form turns it into
\* a 500 answer, batch_analyze lets it pass and the framework answers 500, a
\* direct caller gets the exception
Raised_to_caller(r) ==
  IF r.entry = "POST /api/analyze"
    THEN HTTPException(r, 500, "Error processing video")
  ELSE IF r.entry = "POST /api/batch-analyze"
    THEN HTTPException(r, 500, "Internal Server Error")
  ELSE [r EXCEPT !.at = "raised"]

\* batch_analyze: each UploadFile is passed as it is, with the exercise
\* lower-cased
batch_analyze(r) ==
  [r EXCEPT !.at = "analyze_video", !.exercise = Lower(r.exercise),
            !.content = "UploadFile", !.processor_invoked = TRUE]

\* how writing the upload to the temp file may end; writing anything but
\* bytes raises TypeError
WriteOutcomes == {"written", "raises"}

\* the finally clause of analyze_video and analyze_video_stream
Unlinked(r) == [r EXCEPT !.temp_exists = FALSE]

\* analyze_video up to the call of _process_video_file: the membership test,
\* then the temp file is created and written, before the try statement
VideoProcessor_analyze_video(r, write) ==
  IF r.exercise \notin ANALYZERS THEN Returned_to_caller(r, UnknownExercise)
  ELSE LET created == [r EXCEPT !.temp_file = TRUE, !.temp_exists = TRUE]
       IN  IF write = "raises" \/ r.content # "bytes"
             THEN Raised_to_caller(created)
             ELSE [created EXCEPT !.at = "_process_video_file"]

\* analyze_video_stream up to that call: the chunks are written inside the
\* try statement, whose except clause returns a failure dict and whose
\* finally clause unlinks the file
VideoProcessor_analyze_video_stream(r, write) ==
  IF r.exercise \notin ANALYZERS THEN Returned_to_caller(r, UnknownExercise)
  ELSE LET created == [r EXCEPT !.temp_file = TRUE, !.temp_exists = TRUE]
       IN  IF write = "raises"
             THEN Returned_to_caller(Unlinked(created),
                    [UnknownExercise EXCEPT !.message = "Error streaming video"])
             ELSE [created EXCEPT !.at = "_process_video_file"]

\* how _process_video_file may end: the file does not open, the video is
\* too long, the frame loop runs to its end, an exception reaches the outer
\* except clause after the first frames
ProcessingOutcomes == {"not opened", "too long", "analysed", "exception"}

\* cap.release() is called before the return for an over-long video and
\* after the frame loop; the return for a file that did not open and the
\* outer except clause do not call it. The caller's finally clause then
\* unlinks the temp file.
VideoProcessor_process_video_file(r, ending) ==
  LET created == [r EXCEPT !.analyzer = TRUE,
                           !.frames_read = ending \in {"analysed", "exception"},
                           !.capture = CASE ending = "not opened" -> "not opened"
                                         [] ending = "exception" -> "opened"
                                         [] OTHER -> "released"]
  IN Returned_to_caller(Unlinked(created),
       [success |-> ending = "analysed",
        message |-> IF ending = "analysed" THEN "Analyzed" ELSE ending,
        form_score |-> IF ending = "analysed" THEN 100 ELSE 0,
        rep_count |-> 0, feedback |-> <<>>])

(* ------------------------------- sessions ------------------------------ *)
\* the objects one session constructs for itself, and the frames of its
\* video analysed so far
Session_init ==
  [analyzer |-> SquatAnalyzer_init,
   smoother |-> AngleSmoother_init(DefaultWindowSize),
   counter |-> RepCounter_init(DefaultDownThreshold, DefaultUpThreshold),
   frames |-> <<>>]

\* one frame of a session: the analyzer analyses it, and the knee angle, when
\* the landmarks give one, goes to the session's smoother and rep counter
Session_frame(session, frame) ==
  IF frame.missing
    THEN [session EXCEPT !.analyzer = SquatAnalyzer_analyze(@, frame),
                         !.frames = Append(@, frame)]
    ELSE [analyzer |-> SquatAnalyzer_analyze(session.analyzer, frame),
          smoother |-> AngleSmoother_smooth(session.smoother, "knee", frame.knee_angle).self,
          counter |-> RepCounter_update(session.counter, frame.knee_angle),
          frames |-> Append(session.frames, frame)]

\* the sessions as they would be with the analyzer's attributes on the class
Sessions_process_SharedAnalyzer(ss, s, frame) ==
  LET done == Session_frame(ss[s], frame)
  IN [t \in DOMAIN ss |-> IF t = s THEN done
                          ELSE [ss[t] EXCEPT !.analyzer = done.analyzer]]

\* a frame of session s is processed: the other sessions' objects are not
\* reachable from it
Sessions_process(ss, s, frame) == [ss EXCEPT ![s] = Session_frame(@, frame)]

\* the bottom of a squat, standing, a quarter squat, a missing landmark
SessionFrames ==
  {[SquatBaseFrame EXCEPT !.knee_angle = 90],
   [SquatBaseFrame EXCEPT !.knee_angle = 170],
   [SquatBaseFrame EXCEPT !.knee_angle = 150],
   [SquatBaseFrame EXCEPT !.missing = TRUE]}

(* ---------------------- calculate_angle, angle_3pts --------------------- *)

\* Points are pairs of whole pixel coordinates, as get_landmark_coords makes
\* them from a landmark and the frame's width and height.
MaxCoord == 2

Points == (0..MaxCoord) \X (0..MaxCoord)

Minus(p, q) == <<p[1] - q[1], p[2] - q[2]>>

np_dot(u, v) == u[1] * v[1] + u[2] * v[2]

\* the square of np.linalg.norm(u)
NormSq(u) == np_dot(u, u)

\* floor(1000 * cos(d degrees)) for d = 0..180, at index d + 1
CosTable ==
  <<
     1000, 999, 999, 998, 997, 996, 994, 992, 990, 987, 984, 981,
     978, 974, 970, 965, 961, 956, 951, 945, 939, 933, 927, 920,
     913, 906, 898, 891, 882, 874, 866, 857, 848, 838, 829, 819,
     809, 798, 788, 777, 766, 754, 743, 731, 719, 707, 694, 681,
     669, 656, 642, 629, 615, 601, 587, 573, 559, 544, 529, 515,
     500, 484, 469, 453, 438, 422, 406, 390, 374, 358, 342, 325,
     309, 292, 275, 258, 241, 224, 207, 190, 173, 156, 139, 121,
     104, 87, 69, 52, 34, 17, 0, -18, -35, -53, -70, -88,
     -105, -122, -140, -157, -174, -191, -208, -225, -242, -259, -276, -293,
     -310, -326, -343, -359, -375, -391, -407, -423, -439, -454, -470, -485,
     -500, -516, -530, -545, -560, -574, -588, -602, -616, -630, -643, -657,
     -670, -682, -695, -708, -720, -732, -744, -755, -767, -778, -789, -799,
     -810, -820, -830, -839, -849, -858, -867, -875, -883, -892, -899, -907,
     -914, -921, -928, -934, -940, -946, -952, -957, -962, -966, -971, -975,
     -979, -982, -985, -988, -991, -993, -995, -997, -998, -999, -1000, -1000,
     -1000  >>

\* dot / sqrt(prod) <= cos(d degrees), to the resolution of CosTable; prod > 0
CosAtMost(dot, prod, d) ==
  LET t == CosTable[d + 1]
  IN  IF dot <= 0 /\ t >= 0 THEN TRUE
      ELSE IF dot > 0 /\ t < 0 THEN FALSE
      ELSE IF dot > 0 THEN dot * dot * 1000000 <= t * t * prod
      ELSE dot * dot * 1000000 >= t * t * prod

\* np.degrees(np.arccos(np.clip(dot / sqrt(prod), -1.0, 1.0))) in whole degrees,
\* rounded down: arccos falls as its argument grows, so the angle is at least d
\* exactly when the cosine is at most cos(d)
np_degrees_arccos(dot, prod) ==
  CHOOSE d \in 0..180 :
    /\ CosAtMost(dot, prod, d)
    /\ d < 180 => ~CosAtMost(dot, prod, d + 1)

\* The angle measured from the wrong vertex: bc = c - a
calculate_angle_WrongVertex(a, b, c) ==
  LET vec_ba == Minus(a, b)
      vec_bc == Minus(c, a)
      dot == np_dot(vec_ba, vec_bc)
      prod == NormSq(vec_ba) * NormSq(vec_bc)
  IN  IF prod = 0 THEN NaN ELSE np_degrees_arccos(dot, prod)

\* utils/angle_calculator.py: the quotient is taken as it is, and numpy makes
\* 0.0 / 0.0 a NaN that np.clip, np.arccos and np.degrees pass on
calculate_angle(a, b, c) ==
  LET vec_ba == Minus(a, b)
      vec_bc == Minus(c, b)
      dot == np_dot(vec_ba, vec_bc)
      prod == NormSq(vec_ba) * NormSq(vec_bc)
  IN  IF prod = 0 THEN NaN ELSE np_degrees_arccos(dot, prod)

\* src/main.py: denom = (norm * norm) or 1e-6, so a zero product of norms is
\* replaced and the cosine of coinciding points is 0 / 1e-6 = 0
angle_3pts(a, b, c) ==
  LET vec_ba == Minus(a, b)
      vec_bc == Minus(c, b)
      dot == np_dot(vec_ba, vec_bc)
      prod == NormSq(vec_ba) * NormSq(vec_bc)
  IN  IF prod = 0 THEN 90 ELSE np_degrees_arccos(dot, prod)

AngleCall(a, b, c) ==
  [a |-> a, b |-> b, c |-> c, called |-> FALSE,
   ret |-> 0, reversed |-> 0, ret_3pts |-> 0]

AngleIdle == AngleCall(<<0, 0>>, <<0, 0>>, <<0, 0>>)

(* ------------------------------ actions -------------------------------- *)
\* the objects a run does not drive stay as constructed
RepCounterIdle ==
  /\ rc = RepCounter_init(DefaultDownThreshold, DefaultUpThreshold)
  /\ rc_log = <<>>

AnalyzersIdle ==
  /\ sq = SquatAnalyzer_init
  /\ sr = ShoulderRaiseAnalyzer_init
  /\ bc = BicepCurlAnalyzer_init
  /\ calls = 0
  /\ outcome = "returned"

SmootherIdle ==
  /\ sm = AngleSmoother_init(DefaultWindowSize)
  /\ sm_log = <<>>

\* the response before _process_video_file has returned
NoResult ==
  [returned |-> FALSE, success |-> FALSE, form_score |-> 0, rep_count |-> 0,
   feedback |-> <<>>]

FormIdle ==
  /\ pu = PushupAnalyzer_init
  /\ dp = DipsAnalyzer_init
  /\ pl = PullupAnalyzer_init
  /\ lg = LungeAnalyzer_init
  /\ pk = PlankAnalyzer_init
  /\ dl = DeadliftAnalyzer_init
  /\ base = BaseExerciseAnalyzer_init
  /\ base_log = <<>>
  /\ an_log = <<>>
  /\ result = NoResult

ExtIdle ==
  /\ clock = 0
  /\ sp = SidePlankAnalyzer_init
  /\ vp = VideoProcessor_init(6, 300)
  /\ req = Request("none", "squat", [size_mb |-> 10, content_type |-> "video/mp4", video_ext |-> TRUE])
  /\ cf = [self |-> ConfidenceFilter_init(70), landmarks |-> [kind |-> "None"],
           called |-> FALSE, returned |-> FALSE]
  /\ sessions = [s \in {1, 2} |-> Session_init]
  /\ ang = AngleIdle

InitRepCounter ==
  /\ subject = "RepCounter"
  /\ \E p \in ThresholdPairs : rc = RepCounter_init(p[1], p[2])
  /\ rc_log = <<>>
  /\ AnalyzersIdle
  /\ SmootherIdle
  /\ FormIdle
  /\ ExtIdle

InitAnalyzer ==
  /\ subject \in {"squat", "shoulder_raise", "bicep_curl"}
  /\ RepCounterIdle
  /\ AnalyzersIdle
  /\ SmootherIdle
  /\ FormIdle
  /\ ExtIdle

RepCounterUpdate ==
  /\ subject = "RepCounter"
  /\ Len(rc_log) < MaxUpdates
  /\ \E angle \in UpdateAngles :
       /\ rc' = RepCounter_update(rc, angle)
       /\ rc_log' = Append(rc_log, [angle |-> angle, ret |-> RepCounter_result(rc')])
  /\ UNCHANGED <<subject, sq, sr, bc, calls, outcome, sm, sm_log, formVars, extVars>>

RepCounterReset ==
  /\ subject = "RepCounter"
  /\ rc' = RepCounter_reset(rc)
  /\ rc_log' = <<>>
  /\ UNCHANGED <<subject, sq, sr, bc, calls, outcome, sm, sm_log, formVars, extVars>>

SquatAnalyze ==
  /\ subject = "squat"
  /\ calls < MaxFrames
  /\ ~result.returned
  /\ \E frame \in SquatFrames : sq' = SquatAnalyzer_analyze(sq, frame)
  /\ calls' = calls + 1
  /\ outcome' = "returned"
  /\ UNCHANGED <<subject, rc, rc_log, sr, bc, sm, sm_log, formVars, extVars>>

ShoulderRaiseAnalyze ==
  /\ subject = "shoulder_raise"
  /\ calls < MaxFrames
  /\ ~result.returned
  /\ \E frame \in ShoulderRaiseFrames : sr' = ShoulderRaiseAnalyzer_analyze(sr, frame)
  /\ calls' = calls + 1
  /\ outcome' = "returned"
  /\ UNCHANGED <<subject, rc, rc_log, sq, bc, sm, sm_log, formVars, extVars>>

BicepCurlAnalyze ==
  /\ subject = "bicep_curl"
  /\ calls < MaxFrames
  /\ ~result.returned
  /\ \E frame \in BicepCurlFrames :
       LET r == BicepCurlAnalyzer_analyze(bc, frame)
       IN bc' = r.self /\ outcome' = r.raised
  /\ calls' = calls + 1
  /\ UNCHANGED <<subject, rc, rc_log, sq, sr, sm, sm_log, formVars, extVars>>

InitSmoother ==
  /\ subject = "AngleSmoother"
  /\ RepCounterIdle
  /\ AnalyzersIdle
  /\ \E n \in WindowSizes : sm = AngleSmoother_init(n)
  /\ sm_log = <<>>
  /\ FormIdle
  /\ ExtIdle

Smooth ==
  /\ subject = "AngleSmoother"
  /\ Len(sm_log) < MaxCalls
  /\ \E name \in ChannelNames, v \in SmoothValues :
       LET r == AngleSmoother_smooth(sm, name, v)
       IN /\ sm' = r.self
          /\ sm_log' = Append(sm_log, [op |-> "smooth", name |-> name, value |-> v, ret |-> r.ret])
  /\ UNCHANGED <<subject, rc, rc_log, sq, sr, bc, calls, outcome, formVars, extVars>>

SmootherReset ==
  /\ subject = "AngleSmoother"
  /\ Len(sm_log) < MaxCalls
  /\ sm' = AngleSmoother_reset(sm)
  /\ sm_log' = Append(sm_log, [op |-> "reset"])
  /\ UNCHANGED <<subject, rc, rc_log, sq, sr, bc, calls, outcome, formVars, extVars>>

SmootherResetAngle ==
  /\ subject = "AngleSmoother"
  /\ Len(sm_log) < MaxCalls
  /\ \E name \in ChannelNames :
       /\ sm' = AngleSmoother_reset_angle(sm, name)
       /\ sm_log' = Append(sm_log, [op |-> "reset_angle", name |-> name])
  /\ UNCHANGED <<subject, rc, rc_log, sq, sr, bc, calls, outcome, formVars, extVars>>

NextSmooth == Smooth \/ SmootherReset \/ SmootherResetAngle

SpecSmooth == InitSmoother /\ [][NextSmooth]_vars

NextRep == RepCounterUpdate \/ RepCounterReset

SpecRep == InitRepCounter /\ [][NextRep]_vars

InitCount == InitRepCounter \/ InitAnalyzer

NextCount ==
  \/ RepCounterUpdate
  \/ RepCounterReset
  \/ SquatAnalyze
  \/ ShoulderRaiseAnalyze
  \/ BicepCurlAnalyze

SpecCount == InitCount /\ [][NextCount]_vars

(* ------------------- actions of the form-scoring objects ---------------- *)
InitForm ==
  /\ subject \in {"pushup", "dips", "pullup", "lunge", "plank", "deadlift",
                  "squat", "shoulder_raise", "bicep_curl", "BaseExerciseAnalyzer"}
  /\ RepCounterIdle
  /\ AnalyzersIdle
  /\ SmootherIdle
  /\ FormIdle
  /\ ExtIdle

\* one frame with pose landmarks: analyzer.analyze(results.pose_landmarks, image)
Logged(frame, after) == Append(an_log, [frame |-> frame, after |-> after])

PushupAnalyze ==
  /\ subject = "pushup"
  /\ calls < MaxFrames
  /\ ~result.returned
  /\ \E frame \in PushupFrames :
       /\ pu' = PushupAnalyzer_analyze(pu, frame)
       /\ an_log' = Logged(frame, pu')
  /\ calls' = calls + 1
  /\ outcome' = "returned"
  /\ UNCHANGED <<subject, rc, rc_log, sq, sr, bc, sm, sm_log,
                 dp, pl, lg, pk, dl, base, base_log, result, extVars>>

DipsAnalyze ==
  /\ subject = "dips"
  /\ calls < MaxFrames
  /\ \E frame \in DipsFrames :
       /\ dp' = DipsAnalyzer_analyze(dp, frame)
       /\ an_log' = Logged(frame, dp')
  /\ calls' = calls + 1
  /\ outcome' = "returned"
  /\ UNCHANGED <<subject, rc, rc_log, sq, sr, bc, sm, sm_log,
                 pu, pl, lg, pk, dl, base, base_log, result, extVars>>

PullupAnalyze ==
  /\ subject = "pullup"
  /\ calls < MaxFrames
  /\ \E frame \in PullupFrames :
       /\ pl' = PullupAnalyzer_analyze(pl, frame)
       /\ an_log' = Logged(frame, pl')
  /\ calls' = calls + 1
  /\ outcome' = "returned"
  /\ UNCHANGED <<subject, rc, rc_log, sq, sr, bc, sm, sm_log,
                 pu, dp, lg, pk, dl, base, base_log, result, extVars>>

LungeAnalyze ==
  /\ subject = "lunge"
  /\ calls < MaxFrames
  /\ ~result.returned
  /\ \E frame \in LungeFrames :
       /\ lg' = LungeAnalyzer_analyze(lg, frame)
       /\ an_log' = Logged(frame, lg')
  /\ calls' = calls + 1
  /\ outcome' = "returned"
  /\ UNCHANGED <<subject, rc, rc_log, sq, sr, bc, sm, sm_log,
                 pu, dp, pl, pk, dl, base, base_log, result, extVars>>

PlankAnalyze ==
  /\ subject = "plank"
  /\ calls < MaxFrames
  /\ ~result.returned
  /\ clock' = clock + 1
  /\ \E frame \in PlankFrames :
       /\ pk' = PlankAnalyzer_analyze(pk, frame, clock')
       /\ an_log' = Logged(frame, pk')
  /\ calls' = calls + 1
  /\ outcome' = "returned"
  /\ UNCHANGED <<subject, rc, rc_log, sq, sr, bc, sm, sm_log,
                 pu, dp, pl, lg, dl, base, base_log, result,
                 sp, vp, req, cf, sessions, ang>>

DeadliftAnalyze ==
  /\ subject = "deadlift"
  /\ calls < MaxFrames
  /\ ~result.returned
  /\ \E frame \in DeadliftFrames :
       /\ dl' = DeadliftAnalyzer_analyze(dl, frame)
       /\ an_log' = Logged(frame, dl')
  /\ calls' = calls + 1
  /\ outcome' = "returned"
  /\ UNCHANGED <<subject, rc, rc_log, sq, sr, bc, sm, sm_log,
                 pu, dp, pl, lg, pk, base, base_log, result, extVars>>

\* the exercises of VideoProcessor.ANALYZERS whose analyzers are modelled
Registered == {"squat", "pushup", "plank", "lunge", "deadlift", "shoulder_raise", "bicep_curl"}

\* the analyzer object of a registered exercise; getattr(analyzer, 'rep_count', 0)
AnalyzerOf(exercise) ==
  CASE exercise = "squat" -> sq
    [] exercise = "pushup" -> pu
    [] exercise = "plank" -> pk @@ [rep_count |-> 0]
    [] exercise = "lunge" -> lg
    [] exercise = "deadlift" -> dl
    [] exercise = "shoulder_raise" -> sr
    [] exercise = "bicep_curl" -> bc

\* the video ends (or holds no further pose): the response is built from the
\* analyzer's attributes. An exception that left analyze ends the frame loop
\* in the outer except clause, which returns the failure response.
VideoProcessor_return ==
  /\ subject \in Registered
  /\ ~result.returned
  /\ result' = IF outcome = "returned"
                 THEN [returned |-> TRUE, success |-> TRUE,
                       form_score |-> AnalyzerOf(subject).form_score,
                       rep_count |-> AnalyzerOf(subject).rep_count,
                       feedback |-> AnalyzerOf(subject).feedback]
                 ELSE [returned |-> TRUE, success |-> FALSE, form_score |-> 0,
                       rep_count |-> 0, feedback |-> <<>>]
  /\ UNCHANGED <<subject, rc, rc_log, sq, sr, bc, calls, outcome, sm, sm_log,
                 pu, dp, pl, lg, pk, dl, base, base_log, an_log, extVars>>

AddFeedback ==
  /\ subject = "BaseExerciseAnalyzer"
  /\ calls < MaxCalls
  /\ \E score_penalty \in ScorePenalties :
       /\ base' = BaseExerciseAnalyzer_add_feedback(base, "Form feedback", score_penalty)
       /\ base_log' = Append(base_log, score_penalty)
  /\ calls' = calls + 1
  /\ UNCHANGED <<subject, rc, rc_log, sq, sr, bc, outcome, sm, sm_log,
                 pu, dp, pl, lg, pk, dl, an_log, result, extVars>>

ResetFrame ==
  /\ subject = "BaseExerciseAnalyzer"
  /\ calls < MaxCalls
  /\ base' = BaseExerciseAnalyzer_reset_frame(base)
  /\ base_log' = <<>>
  /\ calls' = calls + 1
  /\ UNCHANGED <<subject, rc, rc_log, sq, sr, bc, outcome, sm, sm_log,
                 pu, dp, pl, lg, pk, dl, an_log, result, extVars>>

NextForm ==
  \/ PushupAnalyze
  \/ DipsAnalyze
  \/ PullupAnalyze
  \/ LungeAnalyze
  \/ PlankAnalyze
  \/ DeadliftAnalyze
  \/ SquatAnalyze
  \/ ShoulderRaiseAnalyze
  \/ BicepCurlAnalyze
  \/ VideoProcessor_return
  \/ AddFeedback
  \/ ResetFrame

SpecForm == InitForm /\ [][NextForm]_vars

(* ------------- DeadliftAnalyzer driven method by method ---------------- *)
\* the calls made on the analyzer: analyze with a frame, _count_reps with a
\* hip angle
MethodLogged(call, arg, after) ==
  Append(an_log, [call |-> call, arg |-> arg, after |-> after])

InitDeadlift ==
  /\ subject = "DeadliftAnalyzer"
  /\ RepCounterIdle
  /\ AnalyzersIdle
  /\ SmootherIdle
  /\ FormIdle
  /\ ExtIdle

DeadliftAnalyzer_analyze_call ==
  /\ subject = "DeadliftAnalyzer"
  /\ calls < MaxFrames
  /\ \E frame \in DeadliftFrames :
       /\ dl' = DeadliftAnalyzer_analyze(dl, frame)
       /\ an_log' = MethodLogged("analyze", frame, dl')
  /\ calls' = calls + 1
  /\ UNCHANGED <<subject, rc, rc_log, sq, sr, bc, outcome, sm, sm_log,
                 pu, dp, pl, lg, pk, base, base_log, result, extVars>>

\* the hip angles of DeadliftFrames
DeadliftAnalyzer_count_reps_call ==
  /\ subject = "DeadliftAnalyzer"
  /\ calls < MaxFrames
  /\ \E hip_angle \in {100, 175} :
       /\ dl' = DeadliftAnalyzer_count_reps(dl, hip_angle)
       /\ an_log' = MethodLogged("_count_reps", hip_angle, dl')
  /\ calls' = calls + 1
  /\ UNCHANGED <<subject, rc, rc_log, sq, sr, bc, outcome, sm, sm_log,
                 pu, dp, pl, lg, pk, base, base_log, result, extVars>>

NextDeadlift == DeadliftAnalyzer_analyze_call \/ DeadliftAnalyzer_count_reps_call

SpecDeadlift == InitDeadlift /\ [][NextDeadlift]_vars

(* ----------------------- the hold-style analyzers ---------------------- *)
\* between two frames time.time() moves on by nothing, by half a second or by
\* a second and a half
HoldTicks == {0, 1, 3}

\* every plank frame in position ends in the same NameError: one of them, a
\* frame out of position and a missing landmark
PlankHoldFrames ==
  {PlankBaseFrame,
   [PlankBaseFrame EXCEPT !.vertical_diff = 40],
   [PlankBaseFrame EXCEPT !.missing = TRUE]}

InitHold ==
  /\ subject \in {"plank", "side_plank"}
  /\ RepCounterIdle
  /\ AnalyzersIdle
  /\ SmootherIdle
  /\ FormIdle
  /\ ExtIdle

HoldLogged(frame, now, after) ==
  Append(an_log, [frame |-> frame, now |-> now, after |-> after])

PlankHold ==
  /\ subject = "plank"
  /\ calls < MaxFrames
  /\ \E frame \in PlankHoldFrames, dt \in HoldTicks :
       /\ clock' = clock + dt
       /\ pk' = PlankAnalyzer_analyze(pk, frame, clock')
       /\ an_log' = HoldLogged(frame, clock', pk')
  /\ calls' = calls + 1
  /\ UNCHANGED <<subject, rc, rc_log, sq, sr, bc, outcome, sm, sm_log,
                 pu, dp, pl, lg, dl, base, base_log, result,
                 sp, vp, req, cf, sessions, ang>>

SidePlankHold ==
  /\ subject = "side_plank"
  /\ calls < MaxFrames
  /\ \E frame \in SidePlankFrames, dt \in HoldTicks :
       /\ clock' = clock + dt
       /\ sp' = SidePlankAnalyzer_analyze(sp, frame, clock')
       /\ an_log' = HoldLogged(frame, clock', sp')
  /\ calls' = calls + 1
  /\ UNCHANGED <<subject, rc, rc_log, sq, sr, bc, outcome, sm, sm_log,
                 pu, dp, pl, lg, pk, dl, base, base_log, result,
                 vp, req, cf, sessions, ang>>

NextHold == PlankHold \/ SidePlankHold

SpecHold == InitHold /\ [][NextHold]_vars

(* ------------------- the frame loop of the video processor ------------- *)
\* FRAME_SKIP_RATE and MAX_FRAMES_TO_ANALYZE as the environment may set them
InitVideo ==
  /\ subject \in {"squat", "pushup"}
  /\ RepCounterIdle
  /\ AnalyzersIdle
  /\ SmootherIdle
  /\ FormIdle
  /\ clock = 0
  /\ sp = SidePlankAnalyzer_init
  /\ \E frame_skip_rate \in {1, 2}, max_frames_to_analyze \in {2, 300} :
       vp = VideoProcessor_init(frame_skip_rate, max_frames_to_analyze)
  /\ req = Request("none", "squat", [size_mb |-> 10, content_type |-> "video/mp4", video_ext |-> TRUE])
  /\ cf = [self |-> ConfidenceFilter_init(70), landmarks |-> [kind |-> "None"],
           called |-> FALSE, returned |-> FALSE]
  /\ sessions = [s \in {1, 2} |-> Session_init]
  /\ ang = AngleIdle

\* cap.read() delivers a frame
VideoProcessor_read ==
  /\ subject \in {"squat", "pushup"}
  /\ ~result.returned
  /\ vp.reading
  /\ vp.frame_count < MaxFrames
  /\ \E frame \in VideoFrames(subject) :
       LET pass == VideoProcessor_process_frame(vp, subject, AnalyzerOf(subject), frame)
       IN /\ vp' = pass.vp
          /\ sq' = IF subject = "squat" THEN pass.analyzer ELSE sq
          /\ pu' = IF subject = "pushup" THEN pass.analyzer ELSE pu
          /\ an_log' = Append(an_log, [frame |-> frame, after |-> pass.analyzer,
                                       vp |-> pass.vp])
  /\ UNCHANGED <<subject, rc, rc_log, sr, bc, calls, outcome, sm, sm_log,
                 dp, pl, lg, pk, dl, base, base_log, result,
                 holdVars, req, cf, sessions, ang>>

\* cap.read() delivers no further frame, or the loop was left: the response
\* is built from the analyzer and the two counters
VideoProcessor_response ==
  /\ subject \in {"squat", "pushup"}
  /\ ~result.returned
  /\ result' = [returned |-> TRUE, success |-> TRUE,
                form_score |-> AnalyzerOf(subject).form_score,
                rep_count |-> AnalyzerOf(subject).rep_count,
                feedback |-> AnalyzerOf(subject).feedback,
                frames_processed |-> vp.frame_count,
                frames_analyzed |-> vp.frames_analyzed]
  /\ UNCHANGED <<subject, rc, rc_log, sq, sr, bc, calls, outcome, sm, sm_log,
                 pu, dp, pl, lg, pk, dl, base, base_log, an_log, extVars>>

NextVideo == VideoProcessor_read \/ VideoProcessor_response

SpecVideo == InitVideo /\ [][NextVideo]_vars

(* -------------------- requests: API and video processor ---------------- *)
InitRequest ==
  /\ subject = "request"
  /\ RepCounterIdle
  /\ AnalyzersIdle
  /\ SmootherIdle
  /\ FormIdle
  /\ clock = 0
  /\ sp = SidePlankAnalyzer_init
  /\ vp = VideoProcessor_init(6, 300)
  /\ \E entry \in {"POST /api/analyze", "analyze_video", "analyze_video_stream"},
        exercise \in ExerciseIds, upload \in Uploads :
       req = Request(entry, exercise, upload)
  /\ cf = [self |-> ConfidenceFilter_init(70), landmarks |-> [kind |-> "None"],
           called |-> FALSE, returned |-> FALSE]
  /\ sessions = [s \in {1, 2} |-> Session_init]
  /\ ang = AngleIdle

RequestIdle ==
  UNCHANGED <<subject, rc, rc_log, sq, sr, bc, calls, outcome, sm, sm_log,
              formVars, holdVars, vp, cf, sessions, ang>>

AnalyzeForm ==
  /\ subject = "request"
  /\ req.at = "POST /api/analyze"
  /\ req' = analyze_form(req)
  /\ RequestIdle

AnalyzeVideo ==
  /\ subject = "request"
  /\ req.at = "analyze_video"
  /\ \E write \in WriteOutcomes : req' = VideoProcessor_analyze_video(req, write)
  /\ RequestIdle

AnalyzeVideoStream ==
  /\ subject = "request"
  /\ req.at = "analyze_video_stream"
  /\ \E write \in WriteOutcomes : req' = VideoProcessor_analyze_video_stream(req, write)
  /\ RequestIdle

BatchAnalyze ==
  /\ subject = "request"
  /\ req.at = "POST /api/batch-analyze"
  /\ req' = batch_analyze(req)
  /\ RequestIdle

ProcessVideoFile ==
  /\ subject = "request"
  /\ req.at = "_process_video_file"
  /\ \E ending \in ProcessingOutcomes :
       req' = VideoProcessor_process_video_file(req, ending)
  /\ RequestIdle

NextRequest == AnalyzeForm \/ AnalyzeVideo \/ AnalyzeVideoStream \/ ProcessVideoFile

SpecRequest == InitRequest /\ [][NextRequest]_vars

\* the same with the requests of POST /api/batch-analyze, one video each
InitResources ==
  \/ InitRequest
  \/ /\ subject = "request"
     /\ RepCounterIdle
     /\ AnalyzersIdle
     /\ SmootherIdle
     /\ FormIdle
     /\ clock = 0
     /\ sp = SidePlankAnalyzer_init
     /\ vp = VideoProcessor_init(6, 300)
     /\ \E exercise \in ExerciseIds, upload \in Uploads :
          req = Request("POST /api/batch-analyze", exercise, upload)
     /\ cf = [self |-> ConfidenceFilter_init(70), landmarks |-> [kind |-> "None"],
              called |-> FALSE, returned |-> FALSE]
     /\ sessions = [s \in {1, 2} |-> Session_init]
     /\ ang = AngleIdle

NextResources ==
  \/ AnalyzeForm
  \/ AnalyzeVideo
  \/ AnalyzeVideoStream
  \/ ProcessVideoFile
  \/ BatchAnalyze

SpecResources == InitResources /\ [][NextResources]_vars

(* --------------------------- ConfidenceFilter -------------------------- *)
\* a filter with a threshold of 0, 0.5, 0.7 (the default) or 0.75, and the
\* argument of the one call made on it
InitConfidence ==
  /\ subject = "ConfidenceFilter"
  /\ RepCounterIdle
  /\ AnalyzersIdle
  /\ SmootherIdle
  /\ FormIdle
  /\ clock = 0
  /\ sp = SidePlankAnalyzer_init
  /\ vp = VideoProcessor_init(6, 300)
  /\ req = Request("none", "squat", [size_mb |-> 10, content_type |-> "video/mp4", video_ext |-> TRUE])
  /\ \E min_confidence \in {0, 50, 70, 75}, landmarks \in LandmarkLists :
       cf = [self |-> ConfidenceFilter_init(min_confidence), landmarks |-> landmarks,
             called |-> FALSE, returned |-> FALSE]
  /\ sessions = [s \in {1, 2} |-> Session_init]
  /\ ang = AngleIdle

IsValid ==
  /\ subject = "ConfidenceFilter"
  /\ ~cf.called
  /\ cf' = [cf EXCEPT !.called = TRUE,
                      !.returned = ConfidenceFilter_is_valid(cf.self, cf.landmarks)]
  /\ UNCHANGED <<subject, rc, rc_log, sq, sr, bc, calls, outcome, sm, sm_log,
                 formVars, holdVars, vp, req, sessions, ang>>

NextConfidence == IsValid

SpecConfidence == InitConfidence /\ [][NextConfidence]_vars

(* ------------------------------- sessions ------------------------------ *)
InitSessions ==
  /\ subject = "sessions"
  /\ RepCounterIdle
  /\ AnalyzersIdle
  /\ SmootherIdle
  /\ FormIdle
  /\ clock = 0
  /\ sp = SidePlankAnalyzer_init
  /\ vp = VideoProcessor_init(6, 300)
  /\ req = Request("none", "squat", [size_mb |-> 10, content_type |-> "video/mp4", video_ext |-> TRUE])
  /\ cf = [self |-> ConfidenceFilter_init(70), landmarks |-> [kind |-> "None"],
           called |-> FALSE, returned |-> FALSE]
  /\ sessions = [s \in {1, 2} |-> Session_init]
  /\ ang = AngleIdle

\* the next frame of either session is processed; an_log keeps the order
SessionFrame ==
  /\ subject = "sessions"
  /\ Len(an_log) < MaxFrames
  /\ \E s \in DOMAIN sessions, frame \in SessionFrames :
       /\ sessions' = Sessions_process(sessions, s, frame)
       /\ an_log' = Append(an_log, [session |-> s, frame |-> frame])
  /\ UNCHANGED <<subject, rc, rc_log, sq, sr, bc, calls, outcome, sm, sm_log,
                 pu, dp, pl, lg, pk, dl, base, base_log, result,
                 holdVars, vp, req, cf, ang>>

NextSessions == SessionFrame

SpecSessions == InitSessions /\ [][NextSessions]_vars

(* ------------------ specification: the angle of three points ------------ *)

InitAngle ==
  /\ subject = "calculate_angle"
  /\ RepCounterIdle /\ AnalyzersIdle /\ SmootherIdle /\ FormIdle
  /\ clock = 0
  /\ sp = SidePlankAnalyzer_init
  /\ vp = VideoProcessor_init(6, 300)
  /\ req = Request("none", "squat", [size_mb |-> 10, content_type |-> "video/mp4", video_ext |-> TRUE])
  /\ cf = [self |-> ConfidenceFilter_init(70), landmarks |-> [kind |-> "None"],
           called |-> FALSE, returned |-> FALSE]
  /\ sessions = [s \in {1, 2} |-> Session_init]
  /\ \E a \in Points, b \in Points, c \in Points : ang = AngleCall(a, b, c)

\* one call of each function on the same three points, and of calculate_angle
\* on the points in reverse order
CalculateAngle ==
  /\ subject = "calculate_angle"
  /\ ~ang.called
  /\ ang' = [ang EXCEPT !.called = TRUE,
                        !.ret = calculate_angle(ang.a, ang.b, ang.c),
                        !.reversed = calculate_angle(ang.c, ang.b, ang.a),
                        !.ret_3pts = angle_3pts(ang.a, ang.b, ang.c)]
  /\ UNCHANGED <<subject, rc, rc_log, sq, sr, bc, calls, outcome, sm, sm_log,
                 formVars, holdVars, vp, req, cf, sessions>>

NextAngle == CalculateAngle

SpecAngle == InitAngle /\ [][NextAngle]_vars

(* ------- specification: an inline counter beside a RepCounter ----------- *)

\* the thresholds written into _count_reps of the two analyzers
InlineThresholds(exercise) ==
  IF exercise = "squat" THEN <<110, 160>> ELSE <<100, 155>>

\* angles below, on, between and above the two thresholds, and a NaN
InlineAngles(exercise) ==
  LET t == InlineThresholds(exercise)
  IN  {t[1] - 10, t[1], 130, t[2], t[2] + 10, NaN}

InitSideBySide ==
  /\ subject \in {"squat beside RepCounter", "pushup beside RepCounter"}
  /\ rc = IF subject = "squat beside RepCounter"
            THEN RepCounter_init(110, 160) ELSE RepCounter_init(100, 155)
  /\ rc_log = <<>>
  /\ AnalyzersIdle
  /\ SmootherIdle
  /\ FormIdle
  /\ ExtIdle

\* the same angle given to SquatAnalyzer._count_reps and to RepCounter.update
SquatSideBySide ==
  /\ subject = "squat beside RepCounter"
  /\ Len(rc_log) < MaxUpdates
  /\ \E angle \in InlineAngles("squat") :
       /\ sq' = SquatAnalyzer_count_reps(sq, angle)
       /\ rc' = RepCounter_update(rc, angle)
       /\ rc_log' = Append(rc_log, [angle |-> angle, ret |-> RepCounter_result(rc')])
  /\ UNCHANGED <<subject, sr, bc, calls, outcome, sm, sm_log, formVars, extVars>>

\* the same angle given to PushupAnalyzer._count_reps and to RepCounter.update
PushupSideBySide ==
  /\ subject = "pushup beside RepCounter"
  /\ Len(rc_log) < MaxUpdates
  /\ \E angle \in InlineAngles("pushup") :
       /\ pu' = PushupAnalyzer_count_reps(pu, angle)
       /\ rc' = RepCounter_update(rc, angle)
       /\ rc_log' = Append(rc_log, [angle |-> angle, ret |-> RepCounter_result(rc')])
  /\ UNCHANGED <<subject, sq, sr, bc, calls, outcome, sm, sm_log,
                 dp, pl, lg, pk, dl, base, base_log, an_log, result, extVars>>

NextSideBySide ==
  \/ SquatSideBySide
  \/ PushupSideBySide

SpecSideBySide == InitSideBySide /\ [][NextSideBySide]_vars

(* ------ specification: a base analyzer with smoother and rep counter ----- *)

\* the objects constructed: the base class by default, and two subclasses
\* that put a RepCounter into rep_counter, one of them without smoothing
Constructions ==
  {[op |-> "__init__", use_smoothing |-> TRUE, rep_counter |-> None],
   [op |-> "__init__", use_smoothing |-> TRUE,
    rep_counter |-> <<RepCounter_init(DefaultDownThreshold, DefaultUpThreshold)>>],
   [op |-> "__init__", use_smoothing |-> FALSE,
    rep_counter |-> <<RepCounter_init(110, 150)>>]}

InitUtilities ==
  /\ subject = "analyzer utilities"
  /\ RepCounterIdle
  /\ AnalyzersIdle
  /\ SmootherIdle
  /\ pu = PushupAnalyzer_init
  /\ dp = DipsAnalyzer_init
  /\ pl = PullupAnalyzer_init
  /\ lg = LungeAnalyzer_init
  /\ pk = PlankAnalyzer_init
  /\ dl = DeadliftAnalyzer_init
  /\ \E made \in Constructions :
       /\ base = BaseExerciseAnalyzer_new(made.use_smoothing, made.rep_counter)
       /\ base_log = <<made>>
  /\ an_log = <<>>
  /\ result = NoResult
  /\ ExtIdle

\* base_log is the construction followed by every call made since
UtilitiesAddFeedback ==
  /\ subject = "analyzer utilities"
  /\ Len(base_log) <= MaxCalls
  /\ base' = BaseExerciseAnalyzer_add_feedback(base, "Form feedback", 30)
  /\ base_log' = Append(base_log, [op |-> "add_feedback", score_penalty |-> 30])
  /\ UNCHANGED <<subject, rc, rc_log, sq, sr, bc, calls, outcome, sm, sm_log,
                 pu, dp, pl, lg, pk, dl, an_log, result, extVars>>

UtilitiesSmoothAngle ==
  /\ subject = "analyzer utilities"
  /\ Len(base_log) <= MaxCalls
  /\ \E angle_value \in SmoothValues :
       LET r == BaseExerciseAnalyzer_smooth_angle(base, "knee", angle_value)
       IN  /\ base' = r.self
           /\ base_log' = Append(base_log, [op |-> "smooth_angle",
                                            angle_value |-> angle_value, ret |-> r.ret])
  /\ UNCHANGED <<subject, rc, rc_log, sq, sr, bc, calls, outcome, sm, sm_log,
                 pu, dp, pl, lg, pk, dl, an_log, result, extVars>>

UtilitiesRepCounterUpdate ==
  /\ subject = "analyzer utilities"
  /\ Len(base_log) <= MaxCalls
  /\ base.rep_counter # None
  /\ \E angle \in {90, 170} :
       /\ base' = BaseExerciseAnalyzer_rep_counter_update(base, angle)
       /\ base_log' = Append(base_log, [op |-> "rep_counter.update", angle |-> angle,
                                        ret |-> RepCounter_result(base'.rep_counter[1])])
  /\ UNCHANGED <<subject, rc, rc_log, sq, sr, bc, calls, outcome, sm, sm_log,
                 pu, dp, pl, lg, pk, dl, an_log, result, extVars>>

UtilitiesResetFrame ==
  /\ subject = "analyzer utilities"
  /\ Len(base_log) <= MaxCalls
  /\ base' = BaseExerciseAnalyzer_reset_frame(base)
  /\ base_log' = Append(base_log, [op |-> "reset_frame"])
  /\ UNCHANGED <<subject, rc, rc_log, sq, sr, bc, calls, outcome, sm, sm_log,
                 pu, dp, pl, lg, pk, dl, an_log, result, extVars>>

UtilitiesResetExercise ==
  /\ subject = "analyzer utilities"
  /\ Len(base_log) <= MaxCalls
  /\ base' = BaseExerciseAnalyzer_reset_exercise(base)
  /\ base_log' = Append(base_log, [op |-> "reset_exercise"])
  /\ UNCHANGED <<subject, rc, rc_log, sq, sr, bc, calls, outcome, sm, sm_log,
                 pu, dp, pl, lg, pk, dl, an_log, result, extVars>>

NextUtilities ==
  \/ UtilitiesAddFeedback
  \/ UtilitiesSmoothAngle
  \/ UtilitiesRepCounterUpdate
  \/ UtilitiesResetFrame
  \/ UtilitiesResetExercise

SpecUtilities == InitUtilities /\ [][NextUtilities]_vars

(* ---------- specification: the frame loop on a video of squats ----------- *)

\* the frames a video may hold before cap.read() fails
MaxVideoLength == 10

\* FRAME_SKIP_RATE, MAX_FRAMES_TO_ANALYZE and MIN_FRAMES_FOR_ANALYSIS as the
\* environment may set them
VideoSettings == {<<1, 300, 2>>, <<1, 300, 30>>, <<1, 3, 30>>, <<2, 300, 30>>}

\* a frame at the bottom of a squat, a frame standing, a frame without a pose
SquatVideoFrames ==
  {[pose |-> TRUE, visibility |-> 90, landmarks |-> [SquatBaseFrame EXCEPT !.knee_angle = 90]],
   [pose |-> TRUE, visibility |-> 90, landmarks |-> [SquatBaseFrame EXCEPT !.knee_angle = 170]],
   [pose |-> FALSE, visibility |-> 0, landmarks |-> SquatBaseFrame]}

InitSquatVideo ==
  /\ subject = "squat video"
  /\ RepCounterIdle
  /\ AnalyzersIdle
  /\ SmootherIdle
  /\ FormIdle
  /\ clock = 0
  /\ sp = SidePlankAnalyzer_init
  /\ \E s \in VideoSettings :
       vp = [VideoProcessor_init(s[1], s[2]) EXCEPT !.min_frames_for_analysis = s[3]]
  /\ req = Request("none", "squat", [size_mb |-> 10, content_type |-> "video/mp4", video_ext |-> TRUE])
  /\ cf = [self |-> ConfidenceFilter_init(70), landmarks |-> [kind |-> "None"],
           called |-> FALSE, returned |-> FALSE]
  /\ sessions = [s \in {1, 2} |-> Session_init]
  /\ ang = AngleIdle

\* cap.read() delivers a frame: one pass of the while loop
SquatVideo_read ==
  /\ subject = "squat video"
  /\ ~result.returned
  /\ vp.reading
  /\ vp.frame_count < MaxVideoLength
  /\ \E frame \in SquatVideoFrames :
       LET pass == VideoProcessor_process_frame(vp, "squat", sq, frame)
       IN /\ vp' = pass.vp
          /\ sq' = pass.analyzer
  /\ UNCHANGED <<subject, rc, rc_log, sr, bc, calls, outcome, sm, sm_log,
                 formVars, holdVars, req, cf, sessions, ang>>

\* cap.read() delivers no further frame, or the loop was left by a break: the
\* capture is released and the response is built
SquatVideo_response ==
  /\ subject = "squat video"
  /\ ~result.returned
  /\ result' = [returned |-> TRUE, success |-> TRUE,
                form_score |-> sq.form_score,
                rep_count |-> sq.rep_count,
                feedback |-> sq.feedback,
                frames_processed |-> vp.frame_count,
                frames_analyzed |-> vp.frames_analyzed]
  /\ UNCHANGED <<subject, rc, rc_log, sq, sr, bc, calls, outcome, sm, sm_log,
                 pu, dp, pl, lg, pk, dl, base, base_log, an_log, extVars>>

NextSquatVideo == SquatVideo_read \/ SquatVideo_response

SpecSquatVideo == InitSquatVideo /\ [][NextSquatVideo]_vars

\* the frame source is finite: cap.read() fails at some frame unless the loop
\* was left before, and the code after the loop then runs to its return
SpecSquatVideoFair == SpecSquatVideo /\ WF_vars(SquatVideo_response)

(* ======================= properties of RepCounter ====================== *)
\* what update returned before the i-th update of the log (the fresh counter's
\* attributes before the first)
Before(i) ==
  IF i = 1 THEN [rep_count |-> 0, state |-> "READY", partial_rep |-> FALSE]
  ELSE rc_log[i - 1].ret

After(i) == rc_log[i].ret

Below(i) == Lt(rc_log[i].angle, rc.down_threshold)
Above(i) == Gt(rc_log[i].angle, rc.up_threshold)

\* C1: an update changes rep_count only by moving the counter from DOWN to
\* READY, and that DOWN was entered by an earlier update from READY, with every
\* update in between staying in DOWN without counting: entering DOWN or staying
\* in a state never counts.
C1_RepOnlyOnCompletedCycle ==
  \A i \in DOMAIN rc_log :
    After(i).rep_count # Before(i).rep_count =>
      /\ Before(i).state = "DOWN"
      /\ After(i).state = "READY"
      /\ After(i).rep_count = Before(i).rep_count + 1
      /\ \E j \in 1..(i - 1) :
           /\ Before(j).state = "READY"
           /\ \A k \in j..(i - 1) :
                After(k).state = "DOWN" /\ After(k).rep_count = Before(i).rep_count

\* two cycles counted and a third descent under way
C1_Witness ==
  /\ subject = "RepCounter"
  /\ rc.rep_count = 2
  /\ rc.state = "DOWN"
  /\ \E i \in DOMAIN rc_log : After(i).state = "DOWN" /\ Before(i).state = "DOWN"

\* C3: with down_threshold < up_threshold the only transitions are READY to
\* DOWN on an angle below down_threshold and DOWN to READY on an angle above
\* up_threshold; an angle within [down_threshold, up_threshold], an angle
\* above up_threshold in READY and an angle below down_threshold in DOWN leave
\* state, partial_rep and rep_count as they were.
C3_OnlyTwoTransitions ==
  rc.down_threshold < rc.up_threshold =>
    \A i \in DOMAIN rc_log :
      LET a == rc_log[i].angle
      IN /\ (Before(i).state = "READY" /\ Below(i)) => After(i).state = "DOWN"
         /\ (Before(i).state = "DOWN" /\ Above(i)) => After(i).state = "READY"
         /\ After(i).state # Before(i).state =>
              \/ Before(i).state = "READY" /\ Below(i) /\ After(i).state = "DOWN"
              \/ Before(i).state = "DOWN" /\ Above(i) /\ After(i).state = "READY"
         /\ (Ge(a, rc.down_threshold) /\ Le(a, rc.up_threshold)) => After(i) = Before(i)
         /\ (Before(i).state = "READY" /\ Above(i)) => After(i) = Before(i)
         /\ (Before(i).state = "DOWN" /\ Below(i)) => After(i) = Before(i)

\* an angle equal to down_threshold arrived in READY and one equal to
\* up_threshold in DOWN
C3_Witness ==
  /\ subject = "RepCounter"
  /\ \E i \in DOMAIN rc_log : rc_log[i].angle = rc.down_threshold /\ Before(i).state = "READY"
  /\ \E i \in DOMAIN rc_log : rc_log[i].angle = rc.up_threshold /\ Before(i).state = "DOWN"

\* the updates that complete an alternation: an angle above up_threshold whose
\* latest predecessor outside the band is one below down_threshold
Completions ==
  {i \in DOMAIN rc_log :
     /\ Above(i)
     /\ \E j \in 1..(i - 1) : Below(j) /\ \A k \in (j + 1)..(i - 1) : ~Above(k)}

\* a descent that no later angle above up_threshold has answered
OpenDescent ==
  \E j \in DOMAIN rc_log : Below(j) /\ \A k \in (j + 1)..Len(rc_log) : ~Above(k)

\* C4: from a fresh counter, rep_count is the number of completed
\* below-down-then-above-up alternations of the angles fed so far (k complete
\* cycles give k), and the counter is in READY unless a descent is still open.
C4_CountsCompletedCycles ==
  /\ rc.rep_count = Cardinality(Completions)
  /\ rc.state = (IF OpenDescent THEN "DOWN" ELSE "READY")

\* test_rep_counter_multiple_reps: 90, 170 three times with thresholds 100/160
C4_Witness ==
  /\ rc.down_threshold = 100 /\ rc.up_threshold = 160
  /\ [i \in DOMAIN rc_log |-> rc_log[i].angle] = <<90, 170, 90, 170, 90, 170>>
  /\ rc.rep_count = 3
  /\ rc.state = "READY"

\* C5: partial_rep is set exactly in DOWN: a descent leaves rep_count as it was
\* and sets the flag, the completing update from DOWN to READY counts and
\* clears it (the `if self.partial_rep` test never blocks a count).
C5_PartialRepIffDown ==
  /\ rc.partial_rep = (rc.state = "DOWN")
  /\ \A i \in DOMAIN rc_log :
       /\ After(i).partial_rep = (After(i).state = "DOWN")
       /\ (Before(i).state = "READY" /\ After(i).state = "DOWN") =>
            After(i).rep_count = Before(i).rep_count
       /\ (Before(i).state = "DOWN" /\ After(i).state = "READY") =>
            After(i).rep_count = Before(i).rep_count + 1

\* test_rep_counter_partial_rep: down without coming back up
C5_Witness ==
  /\ rc.down_threshold = 100 /\ rc.up_threshold = 160
  /\ [i \in DOMAIN rc_log |-> rc_log[i].angle] = <<170, 90>>
  /\ rc.rep_count = 0
  /\ rc.partial_rep

(* ================== properties of the rep counters ===================== *)
CountStep(before, after) == after = before \/ after = before + 1

\* C2: without a reset, no RepCounter.update and no analyze call lowers
\* rep_count: each leaves it as it was or exactly one larger.
C2_RepCountNeverDecreases ==
  [][/\ rc_log' # <<>> => CountStep(rc.rep_count, rc'.rep_count)
     /\ CountStep(sq.rep_count, sq'.rep_count)
     /\ CountStep(sr.rep_count, sr'.rep_count)
     /\ CountStep(bc.rep_count, bc'.rep_count)]_vars

\* two squats counted in four frames
C2_Witness ==
  /\ subject = "squat"
  /\ calls = 4
  /\ sq.rep_count = 2

\* C6: an analyzer's inline counter counts only on the update that completes
\* the return phase (its phase flag goes from set to clear), never on the
\* update that crosses the first threshold and sets the flag.
C6_InlineCountersCountOnReturn ==
  [][/\ sq'.rep_count # sq.rep_count => sq.is_down /\ ~sq'.is_down
     /\ sr'.rep_count # sr.rep_count => sr.is_raised /\ ~sr'.is_raised
     /\ bc'.rep_count # bc.rep_count => bc.is_curled /\ ~bc'.is_curled]_vars

\* what holds of the code: the squat counter counts on the return only
SquatCountsOnReturn ==
  [][sq'.rep_count # sq.rep_count => sq.is_down /\ ~sq'.is_down]_vars

(* =================== properties of AngleSmoother ====================== *)
Min(a, b) == IF a <= b THEN a ELSE b

LastN(s, n) == SubSeq(s, Len(s) - n + 1, Len(s))

\* the values the first i calls pushed to channel `name` since its creation or
\* last reset, oldest first
RECURSIVE Pushed(_, _)
Pushed(name, i) ==
  IF i = 0 THEN <<>>
  ELSE LET e == sm_log[i]
       IN IF e.op = "reset" THEN <<>>
          ELSE IF e.name # name THEN Pushed(name, i - 1)
          ELSE IF e.op = "reset_angle" THEN <<>>
          ELSE Append(Pushed(name, i - 1), e.value)

\* the last min(n, N) values pushed to `name` by the first i calls
Window(name, i) ==
  LastN(Pushed(name, i), Min(Len(Pushed(name, i)), sm.window_size))

\* a returned mean equals the number v
MeanIs(ret, v) == ret.den > 0 /\ ret.num = v * ret.den

\* C7: with window_size N >= 1 every channel's history holds at most N values,
\* the last min(n, N) pushed to it in arrival order; a channel exists once a
\* value has been pushed to it.
C7_WindowHoldsLastN ==
  sm.window_size >= 1 =>
    \A name \in ChannelNames :
      IF name \in DOMAIN sm.angle_history
        THEN /\ Len(sm.angle_history[name]) <= sm.window_size
             /\ sm.angle_history[name] = Window(name, Len(sm_log))
        ELSE Pushed(name, Len(sm_log)) = <<>>

\* a full window of at least two values has dropped its oldest one
C7_Witness ==
  /\ sm.window_size >= 2
  /\ "knee" \in DOMAIN sm.angle_history
  /\ Len(Pushed("knee", Len(sm_log))) > sm.window_size
  /\ Pushed("knee", Len(sm_log))[1] # sm.angle_history["knee"][1]

\* C8: smooth(name, v) returns the arithmetic mean of the last min(n, N) values
\* pushed to `name`, v included; once the window holds N >= 1 copies of v the
\* result is v.
C8_SmoothReturnsWindowMean ==
  \A i \in DOMAIN sm_log :
    sm_log[i].op = "smooth" =>
      LET w == Window(sm_log[i].name, i)
          ret == sm_log[i].ret
      IN /\ ret.den = Len(w)
         /\ ret.num = SumSeq(w)
         /\ (w # <<>> /\ Len(w) = sm.window_size /\ \A k \in DOMAIN w : w[k] = sm_log[i].value)
              => MeanIs(ret, sm_log[i].value)

\* a window of three filled with 100 after an 80 has left it
C8_Witness ==
  /\ sm.window_size = 3
  /\ Len(sm_log) = 4
  /\ \A i \in DOMAIN sm_log : sm_log[i].op = "smooth" /\ sm_log[i].name = "knee"
  /\ sm_log[1].value = 80
  /\ MeanIs(sm_log[4].ret, 100)

\* the i-th call is the first smooth on its channel after a reset()
FirstAfterReset(i) ==
  /\ sm_log[i].op = "smooth"
  /\ \E j \in 1..(i - 1) :
       /\ sm_log[j].op = "reset"
       /\ \A k \in (j + 1)..(i - 1) :
            ~(sm_log[k].op = "smooth" /\ sm_log[k].name = sm_log[i].name)

\* C9: the first smooth(name, v) on a channel after reset() returns exactly v,
\* whatever was pushed before the reset.
C9_FirstSmoothAfterResetIsRaw ==
  \A i \in DOMAIN sm_log : FirstAfterReset(i) => MeanIs(sm_log[i].ret, sm_log[i].value)

\* what holds of the code: C9 for every window_size of at least 1
FirstSmoothAfterResetIsRawFromOne ==
  sm.window_size >= 1 => C9_FirstSmoothAfterResetIsRaw

\* C10: with window_size 0 smoothing is off: every smooth(name, v) returns v.
C10_WindowZeroReturnsRaw ==
  sm.window_size = 0 =>
    \A i \in DOMAIN sm_log :
      sm_log[i].op = "smooth" => MeanIs(sm_log[i].ret, sm_log[i].value)

(* ------------------------- form score and feedback --------------------- *)
\* C11: in every reachable state of every analyzer and of
\* BaseExerciseAnalyzer the form score is an integer from 0 to 100; it is not
\* negative even after a frame on which every check applies its largest penalty
C11_FormScoreInRange ==
  /\ \A a \in {sq, sr, bc, pu, dp, pl, lg, pk, dl} : a.form_score \in 0..100
  /\ base.form_score \in 0..100
  /\ result.form_score \in 0..100

\* a push-up frame on which each of the five checks applied its largest penalty
C11_Witness ==
  /\ subject = "pushup"
  /\ an_log # <<>>
  /\ pu.alignment_warnings > 0
  /\ Len(pu.feedback) = 5
  /\ pu.form_score = 0

Clamp(x) == IF x < 0 THEN 0 ELSE IF x > 100 THEN 100 ELSE x

Swapped(s, i, j) ==
  [k \in DOMAIN s |-> IF k = i THEN s[j] ELSE IF k = j THEN s[i] ELSE s[k]]

\* C12: the frame score depends only on the penalties of the frame, not on
\* their order: for non-negative penalties, applying them one by one through
\* add_feedback and subtracting them all before clamping once both give
\* clamp(100 - sum, 0, 100), for the order used and for every reordering of
\* it; penalties summing to 250 give 0
C12_FrameScoreOrderIndependent ==
  (\A i \in DOMAIN base_log : base_log[i] >= 0) =>
     /\ base.form_score = Clamp(100 - SumSeq(base_log))
     /\ ClampOnce(base_log) = Clamp(100 - SumSeq(base_log))
     /\ \A i, j \in DOMAIN base_log :
          /\ OneByOne(BaseExerciseAnalyzer_init, Swapped(base_log, i, j)).form_score
               = base.form_score
          /\ ClampOnce(Swapped(base_log, i, j)) = base.form_score
     /\ (SumSeq(base_log) = 250 => base.form_score = 0)

\* four add_feedback calls in one frame whose penalties sum to 250
C12_Witness ==
  /\ subject = "BaseExerciseAnalyzer"
  /\ Len(base_log) = 4
  /\ Len(base.feedback) = 4
  /\ SumSeq(base_log) = 250
  /\ base_log[1] < base_log[2]
  /\ base.form_score = 0

\* C13: SquatAnalyzer: once a frame has been aggregated, form_score is the
\* truncated integer mean of the frame scores of the session, each of them
\* clamped to 0..100 (frame scores 100, 80, 60 give 80)
C13_SquatScoreIsTruncatedMean ==
  LET n == Len(sq.frame_scores)
  IN /\ \A i \in 1..n : sq.frame_scores[i] \in 0..100
     /\ n > 0 => /\ sq.form_score * n <= SumSeq(sq.frame_scores)
                 /\ SumSeq(sq.frame_scores) < (sq.form_score + 1) * n
     /\ n = 0 => sq.form_score = 100

\* frame scores 100, 80, 60 (mean 80), then a fourth frame whose score makes
\* the mean of the four a fraction
C13_Witness ==
  /\ subject = "squat"
  /\ Len(sq.frame_scores) = 4
  /\ Take(sq.frame_scores, 3) = <<100, 80, 60>>
  /\ SumSeq(sq.frame_scores) % 4 # 0
  /\ sq.form_score = SumSeq(sq.frame_scores) \div 4

\* position of a message in the frequency table (the order of first sight)
\* and its number of occurrences
FirstSeen(counts, msg) == CHOOSE i \in DOMAIN counts : counts[i].msg = msg
Occurrences(counts, msg) == counts[FirstSeen(counts, msg)].count

\* msg1 ranks before msg2: more occurrences, or as many and seen first
RanksBefore(counts, msg1, msg2) ==
  \/ Occurrences(counts, msg1) > Occurrences(counts, msg2)
  \/ /\ Occurrences(counts, msg1) = Occurrences(counts, msg2)
     /\ FirstSeen(counts, msg1) < FirstSeen(counts, msg2)

\* C16: SquatAnalyzer: feedback lists the at most 4 messages with the most
\* occurrences in the session, in descending order of occurrences, messages
\* with equal occurrences in the order in which they were first seen
C16_SquatFeedbackIsTopFour ==
  LET counts == sq.feedback_counts
      seen == {counts[i].msg : i \in DOMAIN counts}
      shown == {sq.feedback[i] : i \in DOMAIN sq.feedback}
  IN /\ Len(sq.feedback) = Min(4, Len(counts))
     /\ shown \subseteq seen
     /\ \A i, j \in DOMAIN sq.feedback :
          i < j => RanksBefore(counts, sq.feedback[i], sq.feedback[j])
     /\ \A m \in seen \ shown : \A i \in DOMAIN sq.feedback :
          RanksBefore(counts, sq.feedback[i], m)

\* more than four messages seen, two shown messages with equal occurrences,
\* and a shown message that overtook one seen before it
C16_Witness ==
  LET counts == sq.feedback_counts
  IN /\ subject = "squat"
     /\ Len(counts) > 4
     /\ \E i, j \in DOMAIN sq.feedback :
          /\ i < j
          /\ Occurrences(counts, sq.feedback[i]) = Occurrences(counts, sq.feedback[j])
     /\ \E i, j \in DOMAIN sq.feedback :
          /\ i < j
          /\ FirstSeen(counts, sq.feedback[i]) > FirstSeen(counts, sq.feedback[j])

\* the frames of the session on which analyze ran to its end, with the frame
\* score (100 minus the frame's penalties, clamped) and the messages that the
\* per-frame analyzers leave in form_score and feedback
Raised(e) ==
  \/ e.frame.missing
  \/ \E i \in DOMAIN e.after.feedback : e.after.feedback[i] = NaNToInt

RECURSIVE Accepted(_)
Accepted(log) ==
  IF log = <<>> THEN <<>>
  ELSE IF Raised(Head(log)) THEN Accepted(Tail(log))
  ELSE <<[score |-> Clamp(Head(log).after.form_score), msgs |-> Head(log).after.feedback]>>
         \o Accepted(Tail(log))

RECURSIVE ScoresOf(_)
ScoresOf(frames) ==
  IF frames = <<>> THEN <<>> ELSE <<Head(frames).score>> \o ScoresOf(Tail(frames))

RECURSIVE CountsOf(_, _)
CountsOf(counts, frames) ==
  IF frames = <<>> THEN counts
  ELSE CountsOf(CountMessages(counts, Head(frames).msgs), Tail(frames))

\* all messages of a frequency table, most frequent first
Ranked(counts) ==
  LET sorted == SortedByCount(counts) IN [i \in DOMAIN sorted |-> sorted[i].msg]

\* feedback is the head of the ranking and is cut no shorter than 4
RankedOver(feedback, counts) ==
  /\ Len(feedback) <= Len(counts)
  /\ Len(feedback) >= Min(4, Len(counts))
  /\ feedback = Take(Ranked(counts), Len(feedback))

\* C14: the response of a session holds the truncated integer mean of the
\* frame scores of all accepted frames and feedback ranked over all of them,
\* not the score and the messages of the last frame; for the analyzers that
\* aggregate (squat) and for those that score each frame on its own
\* (push-up, lunge)
C14_ResultAggregatesSession ==
  (result.returned /\ result.success) =>
     /\ (subject = "squat" /\ sq.frame_scores # <<>>) =>
          /\ result.form_score = SumSeq(sq.frame_scores) \div Len(sq.frame_scores)
          /\ RankedOver(result.feedback, sq.feedback_counts)
     /\ (subject \in {"pushup", "lunge"} /\ Accepted(an_log) # <<>>) =>
          /\ result.form_score = SumSeq(ScoresOf(Accepted(an_log)))
                                   \div Len(Accepted(an_log))
          /\ RankedOver(result.feedback, CountsOf(<<>>, Accepted(an_log)))

\* the frames of the session that had every landmark
WithLandmarks == {i \in DOMAIN an_log : ~an_log[i].frame.missing}

\* C15: every frame with its landmarks adds its frame score to the score
\* aggregate of the plank and deadlift analyzers, and a plank frame in
\* position with sagging hips (body angle below 160) or a deadlift frame with
\* back rounding (back angle below 155) brings the session score below 100
C15_PenaltiesReachSessionScore ==
  /\ subject = "plank" =>
       /\ Len(pk.frame_scores) = Cardinality(WithLandmarks)
       /\ (\E i \in WithLandmarks :
             /\ an_log[i].after.in_plank_position
             /\ Lt(an_log[i].frame.body_angle, 160)) => pk.form_score < 100
  /\ subject = "deadlift" =>
       /\ Len(dl.frame_scores) = Cardinality(WithLandmarks)
       /\ (\E i \in WithLandmarks : Lt(an_log[i].frame.back_angle, 155))
            => dl.form_score < 100

\* C17: the feedback list of the response of VideoProcessor holds at most 4
\* messages, for every registered exercise and every sequence of frames
C17_ResultFeedbackAtMostFour ==
  result.returned => Len(result.feedback) <= 4

(* ------------------------ phase-gated analyzers ------------------------ *)
PhaseGated == {"pushup", "dips", "pullup"}

\* the analyzer as it was before and after the i-th frame of the session
AsConstructed ==
  CASE subject = "pushup" -> PushupAnalyzer_init
    [] subject = "dips" -> DipsAnalyzer_init
    [] subject = "pullup" -> PullupAnalyzer_init

BeforeFrame(i) == IF i = 1 THEN AsConstructed ELSE an_log[i - 1].after
AfterFrame(i) == an_log[i].after

\* the position flag, the rep phase flag and the corrective message
InPosition(a) ==
  CASE subject = "pushup" -> a.in_pushup_position
    [] subject = "dips" -> a.in_dip_position
    [] subject = "pullup" -> a.in_hang_position

InRep(a) == IF subject = "pullup" THEN a.is_up ELSE a.is_down

Corrective ==
  CASE subject = "pushup" -> "Get in push-up position"
    [] subject = "dips" -> "Get in dip starting position"
    [] subject = "pullup" -> "Hang from bar to start"

\* the frames on which the position predicate was evaluated, and was false
OutOfPosition(i) == ~an_log[i].frame.missing /\ ~InPosition(AfterFrame(i))

\* C18: push-up, dips, pull-up: a frame on which the position predicate is
\* false runs no check and applies no penalty (form_score is 100), leaves
\* rep_count as it was, forces the rep phase flag to its READY value and
\* leaves exactly one message, the corrective instruction
C18_OutOfPositionFrame ==
  subject \in PhaseGated =>
    \A i \in DOMAIN an_log :
      OutOfPosition(i) =>
        /\ AfterFrame(i).form_score = 100
        /\ AfterFrame(i).rep_count = BeforeFrame(i).rep_count
        /\ ~InRep(AfterFrame(i))
        /\ AfterFrame(i).feedback = <<Corrective>>

\* a push-up frame out of position that follows a penalized frame in position
\* which had started a rep, after a rep had been counted
C18_Witness ==
  /\ subject = "pushup"
  /\ \E i \in DOMAIN an_log :
       /\ i > 1
       /\ OutOfPosition(i)
       /\ InRep(BeforeFrame(i))
       /\ BeforeFrame(i).form_score < 100
       /\ BeforeFrame(i).rep_count > 0

\* the rep phase was entered on frame d; a rep was counted on frame k
Descent(d) == ~InRep(BeforeFrame(d)) /\ InRep(AfterFrame(d))
RepCounted(k) == AfterFrame(k).rep_count = BeforeFrame(k).rep_count + 1

\* frame k is in position and beyond the up threshold of the rep counter
Returned(k) ==
  /\ ~an_log[k].frame.missing
  /\ InPosition(AfterFrame(k))
  /\ Gt(an_log[k].frame.elbow_angle, IF subject = "dips" THEN 160 ELSE 155)

\* C19: push-up, dips, pull-up: a motion that crosses the down threshold in
\* position, then has a frame out of position, then returns in position
\* beyond the up threshold counts no rep: rep_count is neither cleared nor
\* incremented by the exit, and a rep is counted only on a frame that is
\* joined to its descent by frames none of which is out of position
C19_ExitDiscardsRepInProgress ==
  subject \in PhaseGated =>
    \A k \in DOMAIN an_log :
      /\ AfterFrame(k).rep_count \in {BeforeFrame(k).rep_count, BeforeFrame(k).rep_count + 1}
      /\ OutOfPosition(k) => AfterFrame(k).rep_count = BeforeFrame(k).rep_count
      /\ RepCounted(k) =>
           \E d \in 1..(k - 1) :
             /\ Descent(d)
             /\ InPosition(AfterFrame(d))
             /\ \A m \in d..k : ~OutOfPosition(m)
      /\ \A d, j \in 1..(k - 1) :
           (/\ d < j
            /\ Descent(d)
            /\ OutOfPosition(j)
            /\ \A m \in (j + 1)..(k - 1) : ~Descent(m)
            /\ Returned(k)) => ~RepCounted(k)

\* a pull over the bar, then a frame off the bar, then a full hang back on
\* the bar, on which no rep is counted
C19_Witness ==
  /\ subject = "pullup"
  /\ \E d, j, k \in DOMAIN an_log :
       /\ d < j /\ j < k
       /\ Descent(d)
       /\ OutOfPosition(j)
       /\ \A m \in (j + 1)..(k - 1) : ~Descent(m)
       /\ Returned(k)
       /\ ~RepCounted(k)
       /\ ~InRep(AfterFrame(k))

(* --------------------------- DeadliftAnalyzer -------------------------- *)
\* the deadlift analyzer before the i-th frame of the session
DeadliftBefore(i) == IF i = 1 THEN DeadliftAnalyzer_init ELSE an_log[i - 1].after

\* C20: DeadliftAnalyzer: a frame with a critical violation (back angle below
\* 135) records the frame score 0 for that frame, whatever the other checks
\* say, and does not run the rep counting: rep_count and is_down stay
C20_CriticalFrameScoresZero ==
  subject = "deadlift" =>
    \A i \in DOMAIN an_log :
      (~an_log[i].frame.missing /\ Lt(an_log[i].frame.back_angle, 135)) =>
        /\ an_log[i].after.frame_scores = Append(DeadliftBefore(i).frame_scores, 0)
        /\ an_log[i].after.rep_count = DeadliftBefore(i).rep_count
        /\ an_log[i].after.is_down = DeadliftBefore(i).is_down

\* the message of the critical branch of _check_back_safety
CriticalMessage == "STOP! BACK ROUNDING - INJURY RISK!"

Counted(counts, msg) == \E j \in DOMAIN counts : counts[j].msg = msg

\* C21: DeadliftAnalyzer: a frame with a critical safety violation (back angle
\* below 135) has its warning recorded in the session's feedback counts: after
\* such a frame the critical message is a key of feedback_counts, and it stays
\* one for the rest of the session
C21_CriticalMessageRecorded ==
  subject = "deadlift" =>
    \A i \in DOMAIN an_log :
      (~an_log[i].frame.missing /\ Lt(an_log[i].frame.back_angle, 135)) =>
        \A k \in i..Len(an_log) :
          Counted(an_log[k].after.feedback_counts, CriticalMessage)

\* the analyzer before the i-th call of a session driven method by method
DeadliftBeforeCall(i) ==
  IF i = 1 THEN DeadliftAnalyzer_init ELSE an_log[i - 1].after

CriticalFrameInRep(i) ==
  /\ an_log[i].call = "analyze"
  /\ ~an_log[i].arg.missing
  /\ Lt(an_log[i].arg.back_angle, 135)
  /\ DeadliftBeforeCall(i).is_down

InHold(i) ==
  /\ ~an_log[i].frame.missing
  /\ IF subject = "plank" THEN an_log[i].after.in_plank_position
     ELSE an_log[i].after.in_side_plank

OutOfHold(i) ==
  /\ ~an_log[i].frame.missing
  /\ IF subject = "plank" THEN ~an_log[i].after.in_plank_position
     ELSE ~an_log[i].after.in_side_plank

\* the frame that started the hold which the in-position frame i belongs to:
\* the first in-position frame since the last frame out of position
HoldStart(i) ==
  CHOOSE s \in 1..i :
    /\ InHold(s)
    /\ \A m \in s..i : ~OutOfHold(m)
    /\ \A m \in 1..(s - 1) : ~InHold(m) \/ \E n \in m..s : OutOfHold(n)

\* C23: hold-style analyzers (plank, side plank): on a frame in position
\* hold_time is the whole seconds elapsed since the first in-position frame
\* of the current hold (the readings are in half seconds), and on every frame
\* out of position hold_time is reset to 0, so that the next frame in position
\* starts from zero
C23_HoldTimer ==
  subject \in {"plank", "side_plank"} =>
    \A i \in DOMAIN an_log :
      /\ OutOfHold(i) => an_log[i].after.hold_time = 0
      /\ InHold(i) =>
           an_log[i].after.hold_time = (an_log[i].now - an_log[HoldStart(i)].now) \div 2

(* ------------------ the frame loop of the video processor -------------- *)
\* the analyzer and the loop state before the i-th pass of the frame loop
AnalyzerBeforePass(i) ==
  IF i > 1 THEN an_log[i - 1].after
  ELSE IF subject = "squat" THEN SquatAnalyzer_init ELSE PushupAnalyzer_init

LoopBeforePass(i) ==
  IF i > 1 THEN an_log[i - 1].vp ELSE [vp EXCEPT !.frame_count = 0,
                                                 !.frames_analyzed = 0,
                                                 !.reading = TRUE]

\* C24: analysis pipeline: a frame whose key landmarks have a mean visibility
\* below min_confidence (0.7) is rejected: no rule check runs on it, the rep
\* phase and rep_count stay, and nothing is added to the frame scores or the
\* feedback counts, i.e. the analyzer is after the frame as it was before
C24_LowConfidenceFrameRejected ==
  subject \in {"squat", "pushup"} =>
    \A i \in DOMAIN an_log :
      (an_log[i].frame.pose /\ an_log[i].frame.visibility < 70) =>
        an_log[i].after = AnalyzerBeforePass(i)

\* C26: analysis pipeline: a session in which no frame was accepted returns
\* a result all the same (success, no exception), and that result has
\* frames_analyzed 0 and form_score 0
C26_NoFrameSessionScoresZero ==
  (subject \in {"squat", "pushup"} /\ result.returned /\ vp.frames_analyzed = 0) =>
    /\ result.success
    /\ result.frames_analyzed = 0
    /\ result.form_score = 0

\* the phase flag and what the analyzer has accumulated over the session
SessionState(a) ==
  IF subject = "squat"
    THEN <<a.rep_count, a.is_down, a.frame_scores, a.feedback_counts>>
    ELSE <<a.rep_count, a.is_down>>

\* C29: analysis pipeline: a frame in which a required landmark id is absent
\* is treated as rejected: it leaves rep_count, the rep phase, the accumulated
\* frame scores and the feedback counts as they were, and it is not counted
\* in frames_analyzed
C29_MissingLandmarkFrameRejected ==
  subject \in {"squat", "pushup"} =>
    \A i \in DOMAIN an_log :
      (an_log[i].frame.pose /\ an_log[i].frame.landmarks.missing) =>
        /\ SessionState(an_log[i].after) = SessionState(AnalyzerBeforePass(i))
        /\ an_log[i].vp.frames_analyzed = LoopBeforePass(i).frames_analyzed

(* -------------------- requests: API and video processor ---------------- *)
FailureResult(response) ==
  /\ ~response.success
  /\ response.form_score = 0
  /\ response.rep_count = 0
  /\ response.feedback = <<>>

\* C27 as stated: a request whose exercise identifier is not registered is
\* rejected before any session state exists: no analyzer is created, no temp
\* file written and no frame read; analyze_video and analyze_video_stream
\* return the failure result, and POST /api/analyze answers 400 with 'Invalid
\* exercise type' without invoking the video processor
C27_UnregisteredExerciseRejected ==
  (subject = "request" /\ req.given \notin ANALYZERS) =>
    /\ ~req.analyzer /\ ~req.temp_file /\ ~req.frames_read
    /\ req.at = "returned" => FailureResult(req.response)
    /\ req.entry = "POST /api/analyze" =>
         /\ ~req.processor_invoked
         /\ req.at = "answered" =>
              (req.status = 400 /\ req.detail = "Invalid exercise type")

\* the identifier the registry is asked for: analyze_form lower-cases it
Unregistered(r) ==
  IF r.entry = "POST /api/analyze" THEN Lower(r.given) \notin ANALYZERS
  ELSE r.given \notin ANALYZERS

\* the upload is neither too large nor of a type analyze_form refuses
AcceptableUpload(upload) ==
  /\ upload.size_mb <= 50
  /\ upload.content_type = "application/octet-stream" => upload.video_ext
  /\ upload.content_type \in {"video/mp4", "video/x-flv", "application/octet-stream"}

\* C27, amended: the same for an identifier that is not registered after the
\* lower-casing analyze_form applies, and with the answer of POST /api/analyze
\* being 400 'Invalid exercise type' when the upload passes the file-size and
\* file-type checks, which come first; an upload that fails them is answered
\* 413 or 400 by those checks, the video processor not being invoked either
C27_UnregisteredExerciseRejectedAfterFileChecks ==
  (subject = "request" /\ Unregistered(req)) =>
    /\ ~req.analyzer /\ ~req.temp_file /\ ~req.frames_read
    /\ req.at = "returned" => FailureResult(req.response)
    /\ req.entry = "POST /api/analyze" =>
         /\ ~req.processor_invoked
         /\ req.at = "answered" =>
              IF AcceptableUpload(req.upload)
                THEN req.status = 400 /\ req.detail = "Invalid exercise type"
                ELSE req.status \in {400, 413} /\ req.detail # "Invalid exercise type"

C27_Witness ==
  /\ subject = "request"
  /\ req.entry = "POST /api/analyze"
  /\ req.given = "dips"
  /\ AcceptableUpload(req.upload)
  /\ req.at = "answered"
  /\ req.status = 400
  /\ req.detail = "Invalid exercise type"

(* --------------------------- ConfidenceFilter -------------------------- *)
\* the visibility that counts for key landmark idx: 0 beyond the list
Counting(landmarks, idx) ==
  IF idx < landmarks.len THEN landmarks.visibility[idx] ELSE 0

\* six times the mean visibility of the key landmarks, in quarters
SixMeans(landmarks) ==
  Counting(landmarks, 11) + Counting(landmarks, 12) + Counting(landmarks, 23)
    + Counting(landmarks, 24) + Counting(landmarks, 25) + Counting(landmarks, 26)

\* C25: ConfidenceFilter.is_valid returns False when landmarks is None or
\* empty; otherwise it returns True exactly when the sum of the visibilities
\* of the key landmarks 11, 12, 23, 24, 25, 26 (a key index beyond the list
\* counting 0) divided by 6 is at least min_confidence, a mean equal to the
\* threshold being accepted
C25_IsValidIsMeanAtLeastThreshold ==
  (subject = "ConfidenceFilter" /\ cf.called) =>
    cf.returned =
      IF cf.landmarks.kind \in {"None", "empty"} THEN FALSE
      ELSE SixMeans(cf.landmarks) * 100 >= 6 * 4 * cf.self.min_confidence

\* a mean of exactly 0.5 against a threshold of 0.5, accepted, with the last
\* two key landmarks beyond the list
C25_Witness ==
  /\ subject = "ConfidenceFilter"
  /\ cf.called
  /\ cf.landmarks.kind = "pose"
  /\ cf.landmarks.len = 25
  /\ cf.self.min_confidence = 50
  /\ SixMeans(cf.landmarks) = 12
  /\ cf.returned

(* ------------------- exceptions raised by a rule check ----------------- *)
\* _check_back_safety raises on every deadlift frame that reaches it; on a
\* frame whose back angle is not critical the rep counter is due to run
CheckRaised(i) ==
  /\ ~an_log[i].frame.missing
  /\ ~Lt(an_log[i].frame.back_angle, 135)

\* C28: an exception raised by one rule check affects that check only: the
\* frame still contributes a frame score to the aggregate and the rep counter
\* is still updated with the frame's hip angle
C28_CheckExceptionContained ==
  subject = "deadlift" =>
    \A i \in DOMAIN an_log :
      CheckRaised(i) =>
        LET before == DeadliftBefore(i)
            counted == DeadliftAnalyzer_count_reps(before, an_log[i].frame.hip_angle)
        IN /\ Len(an_log[i].after.frame_scores) = Len(before.frame_scores) + 1
           /\ an_log[i].after.is_down = counted.is_down
           /\ an_log[i].after.rep_count = counted.rep_count

(* ------------------------------- sessions ------------------------------ *)
\* the session that is given the first k of these frames and nothing else
RECURSIVE Alone(_, _)
Alone(frames, k) ==
  IF k = 0 THEN Session_init
  ELSE Session_frame(Alone(frames, k - 1), frames[k])

SessionAfter(s, k) == Alone(sessions[s].frames, k)

KneeWindow(s, k) == SessionAfter(s, k).smoother.angle_history["knee"]

\* C31: rep counting is driven by the smoothed angle (the mean of the last 5
\* measurements of the knee channel), not by the raw angle of the frame: on a
\* frame whose smoothed knee angle is not below the down threshold (110) the
\* squat analyzer neither starts nor counts a rep, whatever the raw angle
C31_RepCountingUsesSmoothedAngle ==
  subject = "sessions" =>
    \A s \in DOMAIN sessions :
      \A k \in 1..Len(sessions[s].frames) :
        (/\ ~sessions[s].frames[k].missing
         /\ SumSeq(KneeWindow(s, k)) >= 110 * Len(KneeWindow(s, k))
         /\ ~SessionAfter(s, k - 1).analyzer.is_down) =>
          /\ ~SessionAfter(s, k).analyzer.is_down
          /\ SessionAfter(s, k).analyzer.rep_count
               = SessionAfter(s, k - 1).analyzer.rep_count


(* --------------------------- the angle kernel --------------------------- *)

NonDegenerate == ang.a # ang.b /\ ang.c # ang.b

\* b lies on the segment from a to c, strictly inside it
VertexBetween ==
  \E m \in 1..(MaxCoord + 1), n \in 1..(MaxCoord + 1) :
    /\ m * (ang.b[1] - ang.a[1]) = n * (ang.c[1] - ang.b[1])
    /\ m * (ang.b[2] - ang.a[2]) = n * (ang.c[2] - ang.b[2])

\* the triangle a, b, c satisfies Pythagoras with the right angle at b
RightAngleAtVertex ==
  NormSq(Minus(ang.a, ang.c))
    = NormSq(Minus(ang.a, ang.b)) + NormSq(Minus(ang.c, ang.b))

\* C32: for non-degenerate points calculate_angle(a, b, c) equals
\* calculate_angle(c, b, a) and lies in [0, 180]; when b lies between a and c
\* on one line the result is within one degree of 180, and when the angle at b
\* is a right angle the result is within one degree of 90.
C32_AngleSymmetricAndBounded ==
  (subject = "calculate_angle" /\ ang.called /\ NonDegenerate) =>
    /\ ang.ret = ang.reversed
    /\ ang.ret \in 0..180
    /\ VertexBetween => ang.ret \in 179..180
    /\ RightAngleAtVertex => ang.ret \in 89..91

\* the three points of a diagonal, whose angle is measured as 180, and the
\* call has returned
C32_Witness ==
  /\ subject = "calculate_angle" /\ ang.called
  /\ ang.a = <<0, 0>> /\ ang.b = <<1, 1>> /\ ang.c = <<2, 2>>
  /\ ang.ret = 180 /\ ang.reversed = 180

\* C33: when a or c coincides with the vertex b, calculate_angle returns a
\* defined angle in [0, 180] and never NaN.
C33_CoincidingPointsGiveDefinedAngle ==
  (subject = "calculate_angle" /\ ang.called /\ ~NonDegenerate) =>
    /\ ang.ret # NaN
    /\ ang.ret \in 0..180


(* ------------------ inline counters beside a RepCounter ----------------- *)

\* the inline counter of the run: is_down and rep_count of the analyzer
InlineCounter == IF subject = "squat beside RepCounter" THEN sq ELSE pu

\* C34: fed the same angles from their initial states, the inline counter of
\* SquatAnalyzer (110/160) and of PushupAnalyzer (100/155) and a RepCounter
\* with the same thresholds agree after every step: is_down holds exactly when
\* the RepCounter's state is DOWN, and the two rep_count values are equal.
C34_InlineCounterRefinesRepCounter ==
  subject \in {"squat beside RepCounter", "pushup beside RepCounter"} =>
    /\ InlineCounter.is_down = (rc.state = "DOWN")
    /\ InlineCounter.rep_count = rc.rep_count

\* the squat counter has counted a rep, with a NaN and an angle on the down
\* threshold among the angles, and is down again
C34_Witness ==
  /\ subject = "squat beside RepCounter"
  /\ sq.rep_count = 1 /\ rc.rep_count = 1
  /\ sq.is_down /\ rc.state = "DOWN"
  /\ \E i, j \in 1..Len(rc_log) : rc_log[i].angle = NaN /\ rc_log[j].angle = 110


(* ------------------- the channels of the AngleSmoother ------------------ *)

\* the smoother with every channel but angle_name taken away
OnlyChannel(self, angle_name) ==
  [self EXCEPT !.angle_history =
     [n \in DOMAIN self.angle_history \cap {angle_name} |-> self.angle_history[n]]]

\* channel m is the same before and after the step: present or absent as it
\* was, with the same history and the same next smoothed value
ChannelUntouched(m) ==
  /\ (m \in DOMAIN sm'.angle_history) = (m \in DOMAIN sm.angle_history)
  /\ m \in DOMAIN sm.angle_history => sm'.angle_history[m] = sm.angle_history[m]
  /\ \A v \in SmoothValues :
       AngleSmoother_smooth(sm', m, v).ret = AngleSmoother_smooth(sm, m, v).ret

\* C35: smooth(name, v) and reset_angle(name) read and change only the history
\* of channel name: every other channel keeps its history and its next
\* smoothed value, and the value smooth returns is the one it returns when
\* no other channel exists. The channel exists after smooth(name, v), and
\* reset_angle on a name without a channel changes nothing.
C35_ChannelsIndependent ==
  [][(subject = "AngleSmoother" /\ Len(sm_log') = Len(sm_log) + 1
        /\ sm_log'[Len(sm_log')].op \in {"smooth", "reset_angle"}) =>
      LET e == sm_log'[Len(sm_log')]
      IN  /\ \A m \in ChannelNames \ {e.name} : ChannelUntouched(m)
          /\ e.op = "smooth" =>
               /\ e.name \in DOMAIN sm'.angle_history
               /\ e.ret = AngleSmoother_smooth(OnlyChannel(sm, e.name), e.name, e.value).ret
               /\ sm'.angle_history[e.name]
                    = AngleSmoother_smooth(OnlyChannel(sm, e.name), e.name, e.value)
                        .self.angle_history[e.name]
          /\ e.op = "reset_angle" =>
               /\ e.name \notin DOMAIN sm'.angle_history
               /\ e.name \notin DOMAIN sm.angle_history => sm' = sm
     ]_vars

\* both channels were smoothed, hip was reset and reset once more when it had
\* no history, and knee still holds its value
C35_Witness ==
  /\ subject = "AngleSmoother"
  /\ sm.window_size = 3
  /\ Len(sm_log) = 4
  /\ sm_log[1].op = "smooth" /\ sm_log[1].name = "knee" /\ sm_log[1].value = 80
  /\ sm_log[2].op = "smooth" /\ sm_log[2].name = "hip"
  /\ sm_log[3].op = "reset_angle" /\ sm_log[3].name = "hip"
  /\ sm_log[4].op = "reset_angle" /\ sm_log[4].name = "hip"
  /\ DOMAIN sm.angle_history = {"knee"}
  /\ sm.angle_history["knee"] = <<80>>


(* ------------------------------ the resets ------------------------------ *)

\* the analyzer a call of the log leaves, and what the call returns (0 when
\* it returns nothing)
AfterCall(self, call) ==
  CASE call.op = "add_feedback" ->
         [self |-> BaseExerciseAnalyzer_add_feedback(self, "Form feedback", call.score_penalty),
          ret |-> 0]
    [] call.op = "smooth_angle" ->
         BaseExerciseAnalyzer_smooth_angle(self, "knee", call.angle_value)
    [] call.op = "rep_counter.update" ->
         LET after == BaseExerciseAnalyzer_rep_counter_update(self, call.angle)
         IN  [self |-> after, ret |-> RepCounter_result(after.rep_counter[1])]
    [] call.op = "reset_frame" ->
         [self |-> BaseExerciseAnalyzer_reset_frame(self), ret |-> 0]

\* the calls log[i..], made one after another on self, return what the log
\* says they returned and leave the analyzer `final`
RECURSIVE SameOutputs(_, _, _, _)
SameOutputs(self, log, i, final) ==
  IF i > Len(log) THEN self = final
  ELSE LET r == AfterCall(self, log[i])
       IN  /\ "ret" \in DOMAIN log[i] => log[i].ret = r.ret
           /\ SameOutputs(r.self, log, i + 1, final)

\* the position of the last reset_exercise in the log, or of the construction
LastResetExercise(log) ==
  CHOOSE i \in 1..Len(log) :
    /\ log[i].op \in {"__init__", "reset_exercise"}
    /\ \A j \in (i + 1)..Len(log) : log[j].op # "reset_exercise"

\* the object as it was constructed
FreshInstance ==
  BaseExerciseAnalyzer_new(base_log[1].use_smoothing, base_log[1].rep_counter)

CalledLast(op) == base_log'[Len(base_log')].op = op

\* C36: the calls made after reset_exercise() return what they return on a
\* freshly constructed instance and leave the same state; reset_exercise sets
\* form_score 100, feedback empty, rep_count 0, empties the smoother and
\* sets the RepCounter to READY, rep_count 0, partial_rep False with both
\* thresholds kept; reset_frame() changes form_score and feedback only.
C36_ResetRestoresInitialState ==
  /\ [](subject = "analyzer utilities" =>
          SameOutputs(FreshInstance, base_log, LastResetExercise(base_log) + 1, base))
  /\ [][(subject = "analyzer utilities" /\ Len(base_log') = Len(base_log) + 1) =>
          /\ CalledLast("reset_exercise") =>
               /\ base'.form_score = 100 /\ base'.feedback = <<>>
               /\ base'.rep_count = 0
               /\ base'.angle_smoother.angle_history = NoChannels
               /\ base.rep_counter # None =>
                    base'.rep_counter[1] =
                      [down_threshold |-> base.rep_counter[1].down_threshold,
                       up_threshold |-> base.rep_counter[1].up_threshold,
                       state |-> "READY", rep_count |-> 0, partial_rep |-> FALSE]
          /\ CalledLast("reset_frame") =>
               /\ base'.form_score = 100 /\ base'.feedback = <<>>
               /\ base'.rep_count = base.rep_count
               /\ base'.rep_counter = base.rep_counter
               /\ base'.angle_smoother = base.angle_smoother
               /\ base'.use_smoothing = base.use_smoothing
       ]_vars

\* an analyzer that had counted a rep and smoothed an angle was reset, and
\* has smoothed one angle since: the mean is of that one angle
C36_Witness ==
  /\ subject = "analyzer utilities"
  /\ Len(base_log) = 6
  /\ base_log[2].op = "rep_counter.update" /\ base_log[2].angle = 90
  /\ base_log[3].op = "rep_counter.update" /\ base_log[3].ret.rep_count = 1
  /\ base_log[4].op = "smooth_angle" /\ base_log[4].angle_value = 80
  /\ base_log[5].op = "reset_exercise"
  /\ base_log[6].op = "smooth_angle" /\ base_log[6].angle_value = 100
  /\ base_log[6].ret = [num |-> 100, den |-> 1]
  /\ base.use_smoothing
  /\ base.rep_counter[1].rep_count = 0


(* ---------------------- the counters of the frame loop ------------------ *)

\* the frames read so far whose index is a multiple of frame_skip_rate
NonSkipped == {i \in 1..Len(an_log) : i % vp.frame_skip_rate = 0}

\* the analyzer and the counter before pass i of the loop
AnalyzerBefore(i) ==
  IF i = 1 THEN (IF subject = "squat" THEN SquatAnalyzer_init ELSE PushupAnalyzer_init)
  ELSE an_log[i - 1].after

AnalyzedBefore(i) == IF i = 1 THEN 0 ELSE an_log[i - 1].vp.frames_analyzed

\* C37: in every state of the frame loop frames_analyzed is at most
\* max_frames_to_analyze, at most the number of frames read whose index is a
\* multiple of frame_skip_rate, and at most the number of frames read; the
\* analyzer changes and frames_analyzed grows only on a frame whose index is
\* a multiple of frame_skip_rate and in which a pose was found.
C37_FrameLoopCounters ==
  (subject \in {"squat", "pushup"} /\ an_log # <<>>) =>
    /\ vp.frame_count = Len(an_log)
    /\ vp.frames_analyzed <= vp.max_frames_to_analyze
    /\ vp.frames_analyzed <= Cardinality(NonSkipped)
    /\ vp.frames_analyzed <= vp.frame_count
    /\ result.returned => /\ result.frames_analyzed <= result.frames_processed
                          /\ result.frames_analyzed = vp.frames_analyzed
    /\ \A i \in 1..Len(an_log) :
         (\/ an_log[i].after # AnalyzerBefore(i)
          \/ an_log[i].vp.frames_analyzed # AnalyzedBefore(i)) =>
           /\ i \in NonSkipped
           /\ an_log[i].frame.pose
           /\ an_log[i].vp.frames_analyzed = AnalyzedBefore(i) + 1

\* every second frame is analyzed and at most two: four frames were read, the
\* second and the fourth were analyzed, and both bounds are met
C37_Witness ==
  /\ subject = "squat"
  /\ vp.frame_skip_rate = 2 /\ vp.max_frames_to_analyze = 2
  /\ Len(an_log) = 4
  /\ vp.frames_analyzed = 2
  /\ an_log[1].frame.pose /\ an_log[3].frame.pose
  /\ sq.rep_count = 1


(* --------------------- how the frame loop comes to an end ---------------- *)

\* the pass just made was on a frame that was not skipped
PassNotSkipped == vp'.frame_count % vp.frame_skip_rate = 0

\* C38: the frame loop ends and a response is returned for every video; a
\* pass leaves the loop exactly when its frame is not skipped and either
\* frames_analyzed had already reached max_frames_to_analyze, or after the
\* pass frames_analyzed >= min_frames_for_analysis and rep_count >= 5; no
\* frame is read after that, and the response is successful and carries the
\* rep_count, form_score and feedback of the analyzer as the loop left it.
C38_FrameLoopStops ==
  /\ (subject = "squat video") ~> result.returned
  /\ [][(subject = "squat video" /\ vp'.frame_count = vp.frame_count + 1) =>
          /\ vp.reading
          /\ ~vp'.reading <=>
               /\ PassNotSkipped
               /\ \/ vp.frames_analyzed >= vp.max_frames_to_analyze
                  \/ /\ vp'.frames_analyzed >= vp.min_frames_for_analysis
                     /\ sq'.rep_count >= 5
          /\ vp.frames_analyzed >= vp.max_frames_to_analyze /\ PassNotSkipped =>
               sq' = sq /\ vp'.frames_analyzed = vp.frames_analyzed
       ]_vars
  /\ [](subject = "squat video" /\ result.returned =>
          /\ result.success
          /\ result.rep_count = sq.rep_count
          /\ result.form_score = sq.form_score
          /\ result.feedback = sq.feedback)

\* the loop was left after the tenth analyzed frame with five reps counted,
\* and the response carries the five reps
C38_Witness ==
  /\ subject = "squat video"
  /\ vp.min_frames_for_analysis = 2
  /\ ~vp.reading
  /\ vp.frames_analyzed = 10 /\ vp.frames_analyzed < vp.max_frames_to_analyze
  /\ result.returned /\ result.success /\ result.rep_count = 5


(* ------------------- the resources of one video request ---------------- *)

\* analyze_video or analyze_video_stream has returned or raised
ProcessorLeft ==
  /\ req.at \in {"answered", "returned", "raised"}
  /\ req.entry \in {"analyze_video", "analyze_video_stream"} \/ req.processor_invoked

\* C39: after analyze_video or analyze_video_stream has returned or raised,
\* on whichever path (unknown exercise, write failure, file that does not
\* open, over-long video, exception in the frame loop, normal completion),
\* the temp file created for the upload no longer exists and a VideoCapture
\* that was opened has been released.
C39_ResourcesReleased ==
  (subject = "request" /\ ProcessorLeft) =>
    /\ ~req.temp_exists
    /\ req.capture # "opened"

====
